---- MODULE Spec2Model ----
(***************************************************************************)
(* A model of the reflection layer of rust-protobuf: message descriptors   *)
(* and their field index, the accessor protocol over the generated and the *)
(* dynamic backing, reflective equality, the lazily built default          *)
(* instance, and the generated binary codec's handling of unknown fields.  *)
(***************************************************************************)
EXTENDS Integers, Sequences, FiniteSets, TLC

(***************************************************************************)
(* Bounds of the model.                                                    *)
(***************************************************************************)
MaxLen == 2

MaxFields == 2

MaxNumber == 3

\* Number of threads that call the process-wide cells.
NumThreads == 2

\* Longest input stream, in fields, that one merge_from decodes, and the most
\* undeclared fields a message decodes before it is cleared.
MaxEntries == 2

\* Most fields of a message declaration handed to the map-entry detection.
MaxEntryFields == 3

\* Longest duration text, in characters, handed to the JSON parser.
MaxDurLen == 4

\* Most members of a JSON object handed to the JSON parser.
MaxMembers == 2

\* Most characters of a file name, before its extension, that are drawn
\* freely.
MaxStem == 2

\* Width in bits that stands for the 64 bits of u64 and i64 in the seconds
\* of a duration: the arithmetic is the code's, two's complement, at a width
\* the decimal texts of the inputs can overflow.
SecBits == 4

VARIABLES
    vt,       \* RuntimeType of the singular field `v` of the loaded schema
    m,        \* the message instance the accessor operations act on
    last,     \* the last accessor operation: [op, f, v]
    pushed,   \* values pushed into the repeated field since it was last empty
    schema,   \* a loaded message: its field declarations and its MessageIndex
    lookup,   \* the last descriptor lookup: [kind, key, result]
    ea,       \* first message compared by reflect_eq
    eb,       \* second message compared by reflect_eq
    verdict,  \* the last comparison: [mode, result]
    cross,    \* the last comparison of ea with a message of the other backing
    cells,    \* the process-wide lazy cells: [state, ptr, inits]
    heap,     \* the objects the cells point to, and the static instance
    pc,       \* where each thread is in its call
    got,      \* what each thread's last call returned: [cell, ref, init, value, early]
    wm,       \* the message that decodes and encodes
    fed,      \* the undeclared fields, as encoded, that wm has decoded
    touched,  \* a declared field of wm was mutated since the last decode
    out,      \* the bytes of the last encode of wm, if it is still current
    ep,       \* the message declaration the code generator is given
    er,       \* the last call on it: [op, status, key, value, backing, instance]
    im,       \* the message whose initialization is checked
    ir,       \* the last checking operation: [op, status, error, written, sized]
    jm,       \* the message JSON text is merged into
    jr,       \* the JSON text and the last entry point called on it: [text, op, status, error]
    objs,     \* the messages that are owned, by address
    ca,       \* the address of the message a
    cb,       \* the address of the message b
    cres,     \* the last operation on a and b: [op, on, mode, result, cloned]
    path,     \* the path of a .proto file, as characters, and the platform of the build
    rmod,     \* the last call on the path: [op, name]
    sm,       \* the message that is written out
    call,     \* the write in progress or the last one: [op, pc, size, status, done, stale_at_start]
    sink,     \* the bytes the write has put into the output stream
    stale     \* the message was mutated since its size was last computed

accVars == <<vt, m, last, pushed>>

idxVars == <<schema, lookup>>

eqVars == <<ea, eb, verdict, cross>>

lazyVars == <<cells, heap, pc, got>>

wireVars == <<wm, fed, touched, out>>

entVars == <<ep, er>>

reqVars == <<im, ir>>

jsonVars == <<jm, jr>>

cmpVars == <<objs, ca, cb, cres>>

modVars == <<path, rmod>>

wrVars == <<sm, call, sink, stale>>

\* The state of a part that a behaviour does not use.
AccIdle == vt = "I32" /\ m = <<>> /\ last = <<>> /\ pushed = <<>>

IdxIdle == schema = <<>> /\ lookup = <<>>

EqIdle == ea = <<>> /\ eb = <<>> /\ verdict = <<>> /\ cross = <<>>

LazyIdle == cells = <<>> /\ heap = <<>> /\ pc = <<>> /\ got = <<>>

WireIdle == wm = <<>> /\ fed = <<>> /\ touched = FALSE /\ out = <<>>

EntIdle == ep = <<>> /\ er = <<>>

ReqIdle == im = <<>> /\ ir = <<>>

JsonIdle == jm = <<>> /\ jr = <<>>

CmpIdle == objs = <<>> /\ ca = 0 /\ cb = 0 /\ cres = <<>>

ModIdle == path = <<>> /\ rmod = <<>>

WrIdle == sm = <<>> /\ call = <<>> /\ sink = <<>> /\ stale = FALSE

\* What the operations of one part leave alone: the state of the others.
AccFrame == UNCHANGED <<idxVars, eqVars, lazyVars, wireVars, entVars, reqVars, jsonVars, cmpVars, modVars, wrVars>>

IdxFrame == UNCHANGED <<accVars, eqVars, lazyVars, wireVars, entVars, reqVars, jsonVars, cmpVars, modVars, wrVars>>

EqFrame == UNCHANGED <<accVars, idxVars, lazyVars, wireVars, entVars, reqVars, jsonVars, cmpVars, modVars, wrVars>>

LazyFrame == UNCHANGED <<accVars, idxVars, eqVars, wireVars, entVars, reqVars, jsonVars, cmpVars, modVars, wrVars>>

WireFrame == UNCHANGED <<accVars, idxVars, eqVars, lazyVars, entVars, reqVars, jsonVars, cmpVars, modVars, wrVars>>

EntFrame == UNCHANGED <<accVars, idxVars, eqVars, lazyVars, wireVars, reqVars, jsonVars, cmpVars, modVars, wrVars>>

ReqFrame == UNCHANGED <<accVars, idxVars, eqVars, lazyVars, wireVars, entVars, jsonVars, cmpVars, modVars, wrVars>>

JsonFrame == UNCHANGED <<accVars, idxVars, eqVars, lazyVars, wireVars, entVars, reqVars, cmpVars, modVars, wrVars>>

CmpFrame == UNCHANGED <<accVars, idxVars, eqVars, lazyVars, wireVars, entVars, reqVars, jsonVars, modVars, wrVars>>

ModFrame == UNCHANGED <<accVars, idxVars, eqVars, lazyVars, wireVars, entVars, reqVars, jsonVars, cmpVars, wrVars>>

WrFrame == UNCHANGED <<accVars, idxVars, eqVars, lazyVars, wireVars, entVars, reqVars, jsonVars, cmpVars, modVars>>

(***************************************************************************)
(* Value model.  A ReflectValueBox is a tagged value [t, v]; a generated   *)
(* struct stores the untagged native payload.  Floats are modelled by      *)
(* their printed form so that NaN is a value of its own.                   *)
(***************************************************************************)
ScalarTypes == {"I32", "I64", "U32", "U64", "F32", "F64", "Bool", "String", "VecU8"}

RuntimeTypes == ScalarTypes \cup {"Enum", "Message"}

FloatTypes == {"F32", "F64"}

Box(t, v) == [t |-> t, v |-> v]

OptNone == <<>>

OptSome(x) == <<x>>

IsSome(o) == Len(o) = 1

Unwrap(o) == o[1]

\* The native payloads of each scalar type that the model draws inputs from.
Payloads(t) ==
    CASE t \in {"I32", "I64"} -> {0, 7, -3}
      [] t \in {"U32", "U64"} -> {0, 17, 19}
      [] t \in FloatTypes -> {"0.0", "1.5", "NaN"}
      [] t = "Bool" -> {FALSE, TRUE}
      [] t = "String" -> {"", "s"}
      [] t = "VecU8" -> {<<>>, <<1>>}
      [] t = "Enum" -> {0, 5}

\* The protobuf zero value of a scalar or enum type.
ZeroPayload(t) ==
    CASE t \in {"I32", "I64", "U32", "U64", "Enum"} -> 0
      [] t \in FloatTypes -> "0.0"
      [] t = "Bool" -> FALSE
      [] t = "String" -> ""
      [] t = "VecU8" -> <<>>

(***************************************************************************)
(* Schema.  Two message types: TestMsg, with a singular field `v` whose    *)
(* type is chosen when the schema is loaded, a repeated field, a map field *)
(* and a oneof `o` of two fields; Sub, the type of message values; and     *)
(* JMsg { optional int32 n = 1; repeated uint32 item_list = 2;             *)
(* map<int32, int32> by_key = 3; }, the message JSON objects are merged    *)
(* into; and Empty, a message type without fields.                         *)
(* A FieldDescriptor is [message_descriptor, index], index counted from 0. *)
(***************************************************************************)
FieldProtos(d) ==
    IF d = "TestMsg"
    THEN << [name |-> "v", number |-> 1, label |-> "singular", oneof |-> ""],
            [name |-> "ii", number |-> 2, label |-> "repeated", oneof |-> ""],
            [name |-> "mp", number |-> 3, label |-> "map", oneof |-> ""],
            [name |-> "oa", number |-> 4, label |-> "singular", oneof |-> "o"],
            [name |-> "ob", number |-> 5, label |-> "singular", oneof |-> "o"] >>
    ELSE IF d = "JMsg"
    THEN << [name |-> "n", number |-> 1, label |-> "singular", oneof |-> ""],
            [name |-> "item_list", number |-> 2, label |-> "repeated", oneof |-> ""],
            [name |-> "by_key", number |-> 3, label |-> "map", oneof |-> ""] >>
    ELSE IF d = "Empty"
    THEN << >>
    ELSE << [name |-> "x", number |-> 1, label |-> "singular", oneof |-> ""] >>

FieldDescriptor(d, index) == [message_descriptor |-> d, index |-> index]

FieldProto(f) == FieldProtos(f.message_descriptor)[f.index + 1]

\* An iterator that yields the descriptors from the last index down.
fields_reversed(d) ==
    [i \in 1..Len(FieldProtos(d)) |-> FieldDescriptor(d, Len(FieldProtos(d)) - i)]

\* MessageDescriptor::fields: one FieldDescriptor per index 0..len-1.
fields(d) == [i \in 1..Len(FieldProtos(d)) |-> FieldDescriptor(d, i - 1)]

FieldSet(d) == {fields(d)[i] : i \in 1..Len(FieldProtos(d))}

\* Element type of a field (value type for a map field).
ElemType(f) ==
    LET n == FieldProto(f).name IN
    CASE n = "v" -> vt
      [] n = "ii" -> "U32"
      [] n = "mp" -> "F64"
      [] n = "oa" -> "I32"
      [] n = "ob" -> "String"
      [] n = "x" -> "I32"
      [] n = "n" -> "I32"
      [] n = "item_list" -> "U32"
      [] n = "by_key" -> "I32"

KeyType(f) == "I32"

OneofsOf(d) == {FieldProtos(d)[i].oneof : i \in 1..Len(FieldProtos(d))} \ {""}

OneofFields(d, o) == {f \in FieldSet(d) : FieldProto(f).oneof = o}

(***************************************************************************)
(* Boxing.  ProtobufValue::as_ref / from_value_box: the generated backing  *)
(* keeps native payloads and converts at the accessor boundary; an enum    *)
(* box carries the enum descriptor beside the number.                      *)
(***************************************************************************)
EnumName == "E"

ToBox(t, native) ==
    IF t = "Enum" THEN Box("Enum", <<EnumName, native>>) ELSE Box(t, native)

\* ReflectValueBox::downcast: None when the box is of another type.
Downcast(t, box) ==
    IF box.t # t THEN OptNone
    ELSE IF t = "Enum"
         THEN (IF box.v[1] = EnumName THEN OptSome(box.v[2]) ELSE OptNone)
         ELSE OptSome(box.v)

ZeroBox(t) == ToBox(t, ZeroPayload(t))

(***************************************************************************)
(* Generated backing: the struct emitted by MessageGen::write_struct.      *)
(***************************************************************************)
\* A filter that lets every field through, oneof members included.
fields_except_oneof_unfiltered(d) == FieldSet(d)

\* MessageGen::fields_except_oneof
fields_except_oneof(d) == {f \in FieldSet(d) : FieldProto(f).oneof = ""}

\* write_struct: one struct field per field outside a oneof, one storage
\* field per oneof group, then unknown_fields and cached_size.
StructFieldNames(d) == {FieldProto(f).name : f \in fields_except_oneof(d)}

\* Default value of a struct field: an unset Option, an empty Vec or HashMap.
DefaultStorage(label) == <<>>

StructDefault(d) ==
    [desc |-> d,
     backing |-> "generated",
     fields |-> [n \in StructFieldNames(d) |->
                   DefaultStorage(FieldProto(CHOOSE f \in FieldSet(d) : FieldProto(f).name = n).label)],
     oneofs |-> [o \in OneofsOf(d) |-> OptNone],
     unknown_fields |-> <<>>,
     cached_size |-> 0]

\* A new() that hands out a used struct.
Generated_new_dirty(d) ==
    [StructDefault(d) EXCEPT !.fields =
        [n \in DOMAIN @ |-> IF n = "ii" THEN <<17>> ELSE @[n]]]

\* write_impl_self: new() is ::std::default::Default::default() of the
\* struct, which derives Default.
Generated_new(d) == StructDefault(d)

InStruct(msg, f) == FieldProto(f).name \in DOMAIN msg.fields

\* Generated singular accessor: read the struct field, or the oneof storage
\* when it holds this field's variant.
Generated_get_singular(msg, f) ==
    LET p == FieldProto(f) IN
    IF InStruct(msg, f)
    THEN (IF IsSome(msg.fields[p.name])
          THEN OptSome(ToBox(ElemType(f), Unwrap(msg.fields[p.name])))
          ELSE OptNone)
    ELSE (IF IsSome(msg.oneofs[p.oneof]) /\ Unwrap(msg.oneofs[p.oneof])[1] = p.name
          THEN OptSome(ToBox(ElemType(f), Unwrap(msg.oneofs[p.oneof])[2]))
          ELSE OptNone)

\* Generated singular setter: the value is downcast to the native type (the
\* caller passes a box of the field's type) and stored; a oneof member
\* replaces whatever variant the oneof storage held.
Generated_set_singular(msg, f, box) ==
    LET p == FieldProto(f)
        native == Unwrap(Downcast(ElemType(f), box))
    IN  IF InStruct(msg, f)
        THEN [msg EXCEPT !.fields[p.name] = OptSome(native)]
        ELSE [msg EXCEPT !.oneofs[p.oneof] = OptSome(<<p.name, native>>)]

\* Generated clear_<field>: the struct field, or the oneof storage, is reset.
Generated_clear_field(msg, f) ==
    LET p == FieldProto(f) IN
    IF InStruct(msg, f)
    THEN [msg EXCEPT !.fields[p.name] = <<>>]
    ELSE [msg EXCEPT !.oneofs[p.oneof] = OptNone]

(***************************************************************************)
(* Dynamic backing: one slot per field index, and per oneof the index of   *)
(* the member that is set (-1 when none is).                               *)
(***************************************************************************)
DynamicMessage_new(d) ==
    [desc |-> d,
     backing |-> "dynamic",
     slots |-> [i \in 1..Len(FieldProtos(d)) |-> <<>>],
     oneof_set |-> [o \in OneofsOf(d) |-> -1],
     unknown_fields |-> <<>>,
     cached_size |-> 0]

DynamicMessage_get_singular(msg, f) == msg.slots[f.index + 1]

\* Setting a member of a oneof clears the sibling that was set before.
DynamicMessage_set_singular(msg, f, box) ==
    LET o == FieldProto(f).oneof IN
    IF o = ""
    THEN [msg EXCEPT !.slots[f.index + 1] = OptSome(box)]
    ELSE LET prev == msg.oneof_set[o]
             cleared == IF prev >= 0 /\ prev # f.index
                        THEN [msg.slots EXCEPT ![prev + 1] = OptNone]
                        ELSE msg.slots
         IN  [msg EXCEPT !.slots = [cleared EXCEPT ![f.index + 1] = OptSome(box)],
                         !.oneof_set[o] = f.index]

DynamicMessage_clear_field(msg, f) ==
    LET o == FieldProto(f).oneof IN
    IF o = ""
    THEN [msg EXCEPT !.slots[f.index + 1] = <<>>]
    ELSE [msg EXCEPT !.slots[f.index + 1] = <<>>,
                     !.oneof_set[o] = IF @ = f.index THEN -1 ELSE @]

(***************************************************************************)
(* Repeated accessor of the generated backing (reflect/acc/v2/repeated.rs) *)
(* and the Vec behind it.  The accessor holds two function references,     *)
(* modelled by the name of the struct field each one returns.              *)
(***************************************************************************)
make_vec_simpler_accessor(name, get_vec, mut_vec) ==
    [name |-> name, fns |-> [get_field |-> get_vec, mut_field |-> mut_vec]]

\* The accessor the generated code registers for a repeated field.
RepeatedAccessorOf(f) ==
    LET n == FieldProto(f).name IN make_vec_simpler_accessor(n, n, n)

\* RepeatedFieldAccessorImpl::get_repeated: the view of fns.get_field(m).
RepeatedFieldAccessorImpl_get_repeated(acc, msg, t) ==
    LET vec == msg.fields[acc.fns.get_field] IN
    [i \in 1..Len(vec) |-> ToBox(t, vec[i])]

\* A mutable view that is taken of a copy of the Vec: pushes are lost.
RepeatedFieldAccessorImpl_push_on_copy(acc, msg, t, box) == msg

\* RepeatedFieldAccessorImpl::mut_repeated, then ReflectRepeatedMut::push on
\* the view of fns.mut_field(m): Vec::push of the downcast value.
RepeatedFieldAccessorImpl_push(acc, msg, t, box) ==
    [msg EXCEPT !.fields[acc.fns.mut_field] = Append(@, Unwrap(Downcast(t, box)))]

RepeatedFieldAccessorImpl_clear(acc, msg) ==
    [msg EXCEPT !.fields[acc.fns.mut_field] = <<>>]

(***************************************************************************)
(* ReflectMap for HashMap (reflect/map/generated.rs).  A map is a sequence *)
(* of <<key, value>> pairs with distinct keys; the order of the sequence   *)
(* is the order reflect_iter yields them in.                               *)
(***************************************************************************)
MapKeys(map) == {map[i][1] : i \in 1..Len(map)}

MapIndexOf(map, k) == CHOOSE i \in 1..Len(map) : map[i][1] = k

\* HashMap::insert: the value of an existing key is replaced.
HashMap_insert(map, k, v) ==
    IF k \in MapKeys(map)
    THEN [map EXCEPT ![MapIndexOf(map, k)] = <<k, v>>]
    ELSE Append(map, <<k, v>>)

\* ReflectMap::len
ReflectMap_len(map) == Len(map)

\* ReflectMap::get: hash_map_get(self, key).map(V::as_ref)
ReflectMap_get(map, k) ==
    IF k \in MapKeys(map) THEN OptSome(map[MapIndexOf(map, k)][2]) ELSE OptNone

(***************************************************************************)
(* The accessor protocol, dispatched on the backing of the message.        *)
(***************************************************************************)
new_instance(b, d) ==
    IF b = "generated" THEN Generated_new(d) ELSE DynamicMessage_new(d)

get_singular(msg, f) ==
    IF msg.backing = "generated"
    THEN Generated_get_singular(msg, f)
    ELSE DynamicMessage_get_singular(msg, f)

has_field(msg, f) == IsSome(get_singular(msg, f))

\* The getter of a scalar field: the value, or the zero value when unset.
get_singular_field_or_default(msg, f) ==
    IF has_field(msg, f) THEN Unwrap(get_singular(msg, f)) ELSE ZeroBox(ElemType(f))

\* A setter that keeps a value already present.
set_singular_field_if_unset(msg, f, box) ==
    IF has_field(msg, f) THEN msg
    ELSE IF msg.backing = "generated"
         THEN Generated_set_singular(msg, f, box)
         ELSE DynamicMessage_set_singular(msg, f, box)

\* FieldDescriptor::set_singular_field, as Parser::merge_singular_field calls it.
set_singular_field(msg, f, box) ==
    IF msg.backing = "generated"
    THEN Generated_set_singular(msg, f, box)
    ELSE DynamicMessage_set_singular(msg, f, box)

clear_field(msg, f) ==
    IF msg.backing = "generated"
    THEN Generated_clear_field(msg, f)
    ELSE DynamicMessage_clear_field(msg, f)

\* FieldDescriptor::get_repeated: the field as a sequence of boxes.
get_repeated(msg, f) ==
    IF msg.backing = "generated"
    THEN RepeatedFieldAccessorImpl_get_repeated(RepeatedAccessorOf(f), msg, ElemType(f))
    ELSE msg.slots[f.index + 1]

\* FieldDescriptor::mut_repeated(m).push(v)
mut_repeated_push(msg, f, box) ==
    IF msg.backing = "generated"
    THEN RepeatedFieldAccessorImpl_push(RepeatedAccessorOf(f), msg, ElemType(f), box)
    ELSE [msg EXCEPT !.slots[f.index + 1] = Append(@, box)]

\* FieldDescriptor::mut_repeated(m).clear()
mut_repeated_clear(msg, f) ==
    IF msg.backing = "generated"
    THEN RepeatedFieldAccessorImpl_clear(RepeatedAccessorOf(f), msg)
    ELSE [msg EXCEPT !.slots[f.index + 1] = <<>>]

\* The elements seen through the view mut_repeated returns.
mut_repeated_view(msg, f) ==
    IF msg.backing = "generated"
    THEN LET vec == msg.fields[RepeatedAccessorOf(f).fns.mut_field] IN
         [i \in 1..Len(vec) |-> ToBox(ElemType(f), vec[i])]
    ELSE msg.slots[f.index + 1]

\* FieldDescriptor::get_map: the entries as <<key box, value box>>, in the
\* order the map's iterator yields them (GeneratedMapIterImpl::next boxes
\* each entry with K::as_ref and V::as_ref).
get_map(msg, f) ==
    IF msg.backing = "generated"
    THEN LET map == msg.fields[FieldProto(f).name] IN
         [i \in 1..Len(map) |->
             <<ToBox(KeyType(f), map[i][1]), ToBox(ElemType(f), map[i][2])>>]
    ELSE msg.slots[f.index + 1]

\* ReflectMapMut::insert; for HashMap, key and value are downcast first.
mut_map_insert(msg, f, kbox, vbox) ==
    IF msg.backing = "generated"
    THEN [msg EXCEPT !.fields[FieldProto(f).name] =
             HashMap_insert(@, Unwrap(Downcast(KeyType(f), kbox)),
                               Unwrap(Downcast(ElemType(f), vbox)))]
    ELSE [msg EXCEPT !.slots[f.index + 1] = HashMap_insert(@, kbox, vbox)]

\* A clear that empties the message the map is a field of.
mut_map_clear_message(msg, f) == new_instance(msg.backing, msg.desc)

\* ReflectMapMut::clear
mut_map_clear(msg, f) ==
    IF msg.backing = "generated"
    THEN [msg EXCEPT !.fields[FieldProto(f).name] = <<>>]
    ELSE [msg EXCEPT !.slots[f.index + 1] = <<>>]

(***************************************************************************)
(* Parser::merge_singular_field (json/parse.rs): the value read for the    *)
(* member is handed to FieldDescriptor::set_singular_field.                *)
(***************************************************************************)
\* A merge that keeps a value the field already holds.
merge_singular_field_keep(msg, f, box) == set_singular_field_if_unset(msg, f, box)

merge_singular_field(msg, f, box) == set_singular_field(msg, f, box)

(***************************************************************************)
(* Inputs of the accessor operations.                                      *)
(***************************************************************************)
Backings == {"generated", "dynamic"}

TestFields == FieldSet("TestMsg")

SingularFields == {f \in TestFields : FieldProto(f).label = "singular"}

RepeatedFields == {f \in TestFields : FieldProto(f).label = "repeated"}

SubX == FieldDescriptor("Sub", 0)

\* The Sub messages of one backing that are used as message values.
SubValues(b) ==
    {new_instance(b, "Sub"), set_singular_field(new_instance(b, "Sub"), SubX, Box("I32", 7))}

\* The valid values of type t for a field of a message of backing b.
ValidValues(b, t) ==
    IF t = "Message"
    THEN {Box("Message", s) : s \in SubValues(b)}
    ELSE {ToBox(t, p) : p \in Payloads(t)}

NoBox == Box("None", 0)

NoField == FieldDescriptor("", -1)

PresentFields(msg) == {f \in SingularFields : has_field(msg, f)}

(***************************************************************************)
(* Accessor operations on one message.                                     *)
(***************************************************************************)
AccInit ==
    /\ vt \in RuntimeTypes
    /\ \E b \in Backings : m = new_instance(b, "TestMsg")
    /\ last = [op |-> "new", f |-> NoField, v |-> NoBox, before |-> {}]
    /\ pushed = <<>>
    /\ IdxIdle /\ EqIdle /\ LazyIdle /\ WireIdle /\ EntIdle /\ ReqIdle /\ JsonIdle /\ CmpIdle /\ ModIdle /\ WrIdle

\* MessageDescriptor::new_instance, or the generated new().
NewInstance ==
    /\ \E b \in Backings :
           /\ m' = new_instance(b, "TestMsg")
           /\ last' = [op |-> "new", f |-> NoField, v |-> NoBox, before |-> PresentFields(m)]
           /\ pushed' = <<>>
           /\ UNCHANGED vt
    /\ AccFrame

SetSingular ==
    /\ \E f \in SingularFields :
           \E box \in ValidValues(m.backing, ElemType(f)) :
               /\ m' = merge_singular_field(m, f, box)
               /\ last' = [op |-> "set", f |-> f, v |-> box, before |-> PresentFields(m)]
               /\ UNCHANGED <<vt, pushed>>
    /\ AccFrame

ClearField ==
    /\ \E f \in SingularFields :
           /\ m' = clear_field(m, f)
           /\ last' = [op |-> "clear", f |-> f, v |-> NoBox, before |-> PresentFields(m)]
           /\ UNCHANGED <<vt, pushed>>
    /\ AccFrame

Push ==
    /\ \E f \in RepeatedFields :
           \E box \in ValidValues(m.backing, ElemType(f)) :
               /\ Len(pushed) < MaxLen
               /\ m' = mut_repeated_push(m, f, box)
               /\ pushed' = Append(pushed, box)
               /\ last' = [op |-> "push", f |-> f, v |-> box, before |-> PresentFields(m)]
               /\ UNCHANGED vt
    /\ AccFrame

ClearRepeated ==
    /\ \E f \in RepeatedFields :
           /\ m' = mut_repeated_clear(m, f)
           /\ pushed' = <<>>
           /\ last' = [op |-> "clear_repeated", f |-> f, v |-> NoBox, before |-> PresentFields(m)]
           /\ UNCHANGED vt
    /\ AccFrame

AccNext == NewInstance \/ SetSingular \/ ClearField \/ Push \/ ClearRepeated

vars == <<accVars, idxVars, eqVars, lazyVars, wireVars, entVars, reqVars, jsonVars, cmpVars, modVars, wrVars>>

Spec == AccInit /\ [][AccNext]_vars

C2_OneofExclusive ==
    /\ \A o \in OneofsOf("TestMsg") :
           Cardinality({f \in OneofFields("TestMsg", o) : has_field(m, f)}) <= 1
    /\ (last.op = "set" /\ FieldProto(last.f).oneof # "") =>
           \A g \in OneofFields("TestMsg", FieldProto(last.f).oneof) :
               has_field(m, g) <=> g = last.f

\* Field ob was set while its sibling oa was present.
C2_Witness ==
    /\ last.op = "set"
    /\ FieldProto(last.f).name = "ob"
    /\ \E g \in last.before : FieldProto(g).name = "oa"
    /\ m.backing = "generated"

(***************************************************************************)
(* C9.  Repeated fields preserve push order: after pushing v1..vn into a   *)
(* new (or cleared) repeated field, its length is n and element i is the   *)
(* (i+1)-th pushed value.                                                  *)
(***************************************************************************)
C9_PushOrder ==
    \A f \in RepeatedFields :
        /\ Len(get_repeated(m, f)) = Len(pushed)
        /\ \A i \in 1..Len(pushed) : get_repeated(m, f)[i] = pushed[i]

\* Two different values were pushed, as in do_test_repeated.
C9_Witness ==
    /\ Len(pushed) = 2
    /\ pushed[1] = Box("U32", 19)
    /\ pushed[2] = Box("U32", 17)
    /\ m.backing = "generated"

(***************************************************************************)
(* C10.  A newly created instance has every field unset: a singular field  *)
(* is absent and a scalar reads as the zero value of its type, and every   *)
(* repeated field is empty through get_repeated and through mut_repeated.  *)
(***************************************************************************)
C10_NewIsEmpty ==
    last.op = "new" =>
        /\ \A f \in SingularFields :
               /\ get_singular(m, f) = OptNone
               /\ ElemType(f) # "Message" =>
                      get_singular_field_or_default(m, f) = ZeroBox(ElemType(f))
        /\ \A f \in RepeatedFields :
               /\ get_repeated(m, f) = <<>>
               /\ mut_repeated_view(m, f) = <<>>

\* A new instance made after the previous one had fields set.
C10_Witness ==
    /\ last.op = "new"
    /\ last.before # {}
    /\ m.backing = "generated"

(***************************************************************************)
(* Descriptor lookups (reflect/message/mod.rs) over the MessageIndex that  *)
(* is built when a schema is loaded.  A field declaration is               *)
(* [name, json_name, number]; loading aborts on a declaration whose        *)
(* number, name or JSON name is already taken.                             *)
(***************************************************************************)
NamePool == {"a", "a_b", "aB", "c"}

\* The lowerCamelCase JSON name of each declared name.
JsonNameOf(n) == IF n = "a_b" THEN "aB" ELSE n

FieldDecls ==
    {[name |-> n, json_name |-> JsonNameOf(n), number |-> k] :
        n \in NamePool, k \in 1..MaxNumber}

RECURSIVE SeqsUpTo(_, _)
SeqsUpTo(S, n) ==
    IF n = 0 THEN {<<>>}
    ELSE LET shorter == SeqsUpTo(S, n - 1) IN
         shorter \cup {Append(q, x) : q \in {r \in shorter : Len(r) = n - 1}, x \in S}

Aborted == [aborted |-> TRUE]

EmptyIndex ==
    [aborted |-> FALSE,
     nfields |-> 0,
     index_by_name |-> <<>>,
     index_by_name_or_json_name |-> <<>>,
     index_by_number |-> <<>>]

\* One declaration added to the index; a key that is already present is a
\* malformed schema and aborts the load.
IndexAdd(idx, decl, i) ==
    LET withName == idx.index_by_name_or_json_name @@ (decl.name :> i) IN
    IF \/ decl.number \in DOMAIN idx.index_by_number
       \/ decl.name \in DOMAIN idx.index_by_name
       \/ decl.name \in DOMAIN idx.index_by_name_or_json_name
       \/ decl.json_name # decl.name /\ decl.json_name \in DOMAIN withName
    THEN Aborted
    ELSE [aborted |-> FALSE,
          nfields |-> i + 1,
          index_by_name |-> idx.index_by_name @@ (decl.name :> i),
          index_by_name_or_json_name |-> withName @@ (decl.json_name :> i),
          index_by_number |-> idx.index_by_number @@ (decl.number :> i)]

RECURSIVE IndexFrom(_, _, _)
IndexFrom(decls, i, idx) ==
    IF idx.aborted \/ i >= Len(decls) THEN idx
    ELSE IndexFrom(decls, i + 1, IndexAdd(idx, decls[i + 1], i))

\* MessageIndex::index
MessageIndex_index(decls) == IndexFrom(decls, 0, EmptyIndex)

\* MessageDescriptor::get_index
get_index == schema.index

\* A HashMap lookup that yields Option<FieldDescriptor>: `map.get(key)?`.
IndexGet(map, key) ==
    IF key \in DOMAIN map THEN OptSome(FieldDescriptor("Loaded", map[key])) ELSE OptNone

get_field_by_name(name) == IndexGet(get_index.index_by_name, name)

\* A lookup in the table of proto names only.
get_field_by_name_or_json_name_names_only(name) ==
    IndexGet(get_index.index_by_name, name)

get_field_by_name_or_json_name(name) ==
    IndexGet(get_index.index_by_name_or_json_name, name)

get_field_by_number(number) == IndexGet(get_index.index_by_number, number)

IdxInit ==
    /\ \E decls \in SeqsUpTo(FieldDecls, MaxFields) :
           schema = [decls |-> decls, index |-> MessageIndex_index(decls)]
    /\ lookup = [kind |-> "none", key |-> "", result |-> OptNone]
    /\ AccIdle /\ EqIdle /\ LazyIdle /\ WireIdle /\ EntIdle /\ ReqIdle /\ JsonIdle /\ CmpIdle /\ ModIdle /\ WrIdle

Loaded == ~schema.index.aborted

LookupKeys == NamePool \cup {"zz"}

LookupByName ==
    /\ \E n \in LookupKeys :
           /\ Loaded
           /\ lookup' = [kind |-> "name", key |-> n, result |-> get_field_by_name(n)]
           /\ UNCHANGED schema
    /\ IdxFrame

LookupByNameOrJsonName ==
    /\ \E n \in LookupKeys :
           /\ Loaded
           /\ lookup' = [kind |-> "name_or_json_name", key |-> n,
                         result |-> get_field_by_name_or_json_name(n)]
           /\ UNCHANGED schema
    /\ IdxFrame

LookupByNumber ==
    /\ \E k \in 0..(MaxNumber + 1) :
           /\ Loaded
           /\ lookup' = [kind |-> "number", key |-> k, result |-> get_field_by_number(k)]
           /\ UNCHANGED schema
    /\ IdxFrame

IdxNext == LookupByName \/ LookupByNameOrJsonName \/ LookupByNumber

SpecIndex == IdxInit /\ [][IdxNext]_vars

DeclaredNames == {schema.decls[i].name : i \in 1..Len(schema.decls)}

DeclaredJsonNames == {schema.decls[i].json_name : i \in 1..Len(schema.decls)}

DeclaredNumbers == {schema.decls[i].number : i \in 1..Len(schema.decls)}

\* What a lookup of `key` must return: the descriptor at the declaration
\* position of the field that declares it, or None when no field does.
Expected(kind, key) ==
    LET hit == {i \in 1..Len(schema.decls) :
                   CASE kind = "name" -> schema.decls[i].name = key
                     [] kind = "number" -> schema.decls[i].number = key
                     [] OTHER -> schema.decls[i].name = key \/ schema.decls[i].json_name = key}
    IN  IF hit = {} THEN OptNone
        ELSE OptSome(FieldDescriptor("Loaded", (CHOOSE i \in hit : TRUE) - 1))

ReflectEqModes == {[nan_equal |-> TRUE], [nan_equal |-> FALSE]}

\* IEEE 754 equality of two floats: NaN is equal to nothing.
IeeeEq(x, y) == x = y /\ x # "NaN"

FloatReflectEq(x, y, mode) ==
    IF mode.nan_equal /\ x = "NaN" /\ y = "NaN" THEN TRUE ELSE IeeeEq(x, y)

descriptor_dyn(msg) == [file_descriptor |-> msg.backing, name |-> msg.desc]

get_reflect(msg, f) ==
    LET label == FieldProto(f).label IN
    CASE label = "singular" -> [kind |-> "Optional", v |-> get_singular(msg, f)]
      [] label = "repeated" -> [kind |-> "Repeated", v |-> get_repeated(msg, f)]
      [] label = "map" -> [kind |-> "Map", v |-> get_map(msg, f)]

RECURSIVE ValueReflectEq(_, _, _)
RECURSIVE MapEqFrom(_, _, _, _)
RECURSIVE FieldsEqFrom(_, _, _, _, _)
RECURSIVE SeqEqFrom(_, _, _, _)

\* ReflectMapRef::reflect_eq without the comparison of the lengths.
ReflectMapRef_reflect_eq_no_len(a, b, mode) == MapEqFrom(a, b, mode, 1)

\* impl ReflectEq for ReflectMapRef (reflect/map/mod.rs)
ReflectMapRef_reflect_eq(a, b, mode) ==
    IF ReflectMap_len(a) # ReflectMap_len(b) THEN FALSE
    ELSE MapEqFrom(a, b, mode, 1)

\* The loop `for (k, va) in self`, from the i-th entry on.
MapEqFrom(a, b, mode, i) ==
    IF i > Len(a) THEN TRUE
    ELSE LET vb == ReflectMap_get(b, a[i][1]) IN
         IF ~IsSome(vb) THEN FALSE
         ELSE IF ~ValueReflectEq(a[i][2], Unwrap(vb), mode) THEN FALSE
         ELSE MapEqFrom(a, b, mode, i + 1)

SeqEqFrom(a, b, mode, i) ==
    IF i > Len(a) THEN TRUE
    ELSE IF ~ValueReflectEq(a[i], b[i], mode) THEN FALSE
    ELSE SeqEqFrom(a, b, mode, i + 1)

ReflectFieldRef_reflect_eq(af, bf, mode) ==
    CASE af.kind = "Optional" ->
            IF IsSome(af.v) /\ IsSome(bf.v)
            THEN ValueReflectEq(Unwrap(af.v), Unwrap(bf.v), mode)
            ELSE ~IsSome(af.v) /\ ~IsSome(bf.v)
      [] af.kind = "Repeated" ->
            Len(af.v) = Len(bf.v) /\ SeqEqFrom(af.v, bf.v, mode, 1)
      [] af.kind = "Map" -> ReflectMapRef_reflect_eq(af.v, bf.v, mode)

\* The loop `for field in self.fields()` of MessageDescriptor::reflect_eq,
\* from field index i on.
FieldsEqFrom(d, a, b, mode, i) ==
    IF i >= Len(fields(d)) THEN TRUE
    ELSE IF ~ReflectFieldRef_reflect_eq(get_reflect(a, fields(d)[i + 1]),
                                        get_reflect(b, fields(d)[i + 1]), mode)
         THEN FALSE
         ELSE FieldsEqFrom(d, a, b, mode, i + 1)

\* The two assert_eq! of MessageDescriptor::reflect_eq: both messages are of
\* the descriptor that compares them; the comparison aborts otherwise.
DescriptorsMatch(d, a, b) == d = descriptor_dyn(a).name /\ d = descriptor_dyn(b).name

\* A reflect_eq that does not hand its mode down to the fields.
MessageDescriptor_reflect_eq_mode_dropped(d, a, b, mode) ==
    FieldsEqFrom(d, a, b, [nan_equal |-> TRUE], 0)

\* A reflect_eq that compares the unknown fields beside the declared ones.
MessageDescriptor_reflect_eq_with_unknown(d, a, b, mode) ==
    FieldsEqFrom(d, a, b, mode, 0) /\ a.unknown_fields = b.unknown_fields

\* MessageDescriptor::reflect_eq, for messages of descriptor d.
MessageDescriptor_reflect_eq(d, a, b, mode) == FieldsEqFrom(d, a, b, mode, 0)

\* MessageDescriptor::reflect_eq_maybe_unrelated
reflect_eq_maybe_unrelated(a, b, mode) ==
    /\ descriptor_dyn(a) = descriptor_dyn(b)
    /\ MessageDescriptor_reflect_eq(a.desc, a, b, mode)

ValueReflectEq(x, y, mode) ==
    IF x.t # y.t THEN FALSE
    ELSE IF x.t \in FloatTypes THEN FloatReflectEq(x.v, y.v, mode)
    ELSE IF x.t = "Message" THEN reflect_eq_maybe_unrelated(x.v, y.v, mode)
    ELSE x.v = y.v

\* Message::reflect_eq (message.rs): reflect_eq_dyn of the two messages.
reflect_eq(a, b, mode) == MessageDescriptor_reflect_eq(a.desc, a, b, mode)

(***************************************************************************)
(* Two messages of one descriptor that are built and compared.             *)
(***************************************************************************)
FieldV == FieldDescriptor("TestMsg", 0)

FieldMp == FieldDescriptor("TestMsg", 2)

NanEqual == [nan_equal |-> TRUE]

Ieee == [nan_equal |-> FALSE]

MapKeyPool == {1, 2}

MapValuePool == {"0.0", "NaN"}

EqInit ==
    /\ vt \in FloatTypes
    /\ \E b \in Backings : ea = new_instance(b, "TestMsg") /\ eb = new_instance(b, "TestMsg")
    /\ verdict = [mode |-> [nan_equal |-> TRUE], result |-> TRUE, self |-> TRUE,
                  eq |-> "none"]
    /\ cross = [done |-> FALSE, unrelated |-> TRUE, aborted |-> FALSE]
    /\ m = <<>> /\ last = <<>> /\ pushed = <<>>
    /\ IdxIdle /\ LazyIdle /\ WireIdle /\ EntIdle /\ ReqIdle /\ JsonIdle /\ CmpIdle /\ ModIdle /\ WrIdle

EqSetA ==
    /\ \E p \in {"1.5", "NaN"} :
           /\ ea' = set_singular_field(ea, FieldV, Box(vt, p))
           /\ UNCHANGED <<eb, verdict, cross>>
    /\ EqFrame

EqSetB ==
    /\ \E p \in {"1.5", "NaN"} :
           /\ eb' = set_singular_field(eb, FieldV, Box(vt, p))
           /\ UNCHANGED <<ea, verdict, cross>>
    /\ EqFrame

EqInsertA ==
    /\ \E k \in MapKeyPool, p \in MapValuePool :
           /\ ea' = mut_map_insert(ea, FieldMp, Box("I32", k), Box("F64", p))
           /\ UNCHANGED <<eb, verdict, cross>>
    /\ EqFrame

EqInsertB ==
    /\ \E k \in MapKeyPool, p \in MapValuePool :
           /\ eb' = mut_map_insert(eb, FieldMp, Box("I32", k), Box("F64", p))
           /\ UNCHANGED <<ea, verdict, cross>>
    /\ EqFrame

Compare ==
    /\ \E mode \in ReflectEqModes :
           /\ DescriptorsMatch(ea.desc, ea, eb)
           /\ verdict' = [verdict EXCEPT !.mode = mode,
                                         !.result = reflect_eq(ea, eb, mode),
                                         !.self = reflect_eq(ea, ea, mode)]
           /\ UNCHANGED <<ea, eb, cross>>
    /\ EqFrame

\* The two assert_eq! of MessageDescriptor::reflect_eq, called as
\* a.descriptor_dyn().reflect_eq(a, b, mode): the call aborts when b is
\* not of a's descriptor.  MessageDescriptor derives PartialEq from its
\* file descriptor and its index, and a schema loaded at run time is
\* another file descriptor than the generated one.
reflect_eq_aborts(a, b) == descriptor_dyn(a) # descriptor_dyn(b)

OtherBacking(b) == IF b = "generated" THEN "dynamic" ELSE "generated"

RECURSIVE InsertAll(_, _, _, _)
InsertAll(msg, f, map, i) ==
    IF i > Len(map) THEN msg
    ELSE InsertAll(mut_map_insert(msg, f, map[i][1], map[i][2]), f, map, i + 1)

\* A message of backing b and of the type of a, given through the accessors
\* the field values that a holds.
SameValuesIn(b, a) ==
    LET fresh == new_instance(b, a.desc)
        withV == IF IsSome(get_singular(a, FieldV))
                 THEN set_singular_field(fresh, FieldV, Unwrap(get_singular(a, FieldV)))
                 ELSE fresh
    IN  InsertAll(withV, FieldMp, get_map(a, FieldMp), 1)

\* ea is compared with a message of the other backing that holds the same
\* field values, by reflect_eq_maybe_unrelated and by Message::reflect_eq.
CompareAcross ==
    /\ LET other == SameValuesIn(OtherBacking(ea.backing), ea) IN
       cross' = [done |-> TRUE,
                 unrelated |-> reflect_eq_maybe_unrelated(ea, other, NanEqual),
                 aborted |-> reflect_eq_aborts(ea, other)]
    /\ UNCHANGED <<ea, eb, verdict>>
    /\ EqFrame

\* MessageFactory::eq of a generated type: both messages are downcast to
\* the type, which aborts for a message of another type, and compared by
\* the PartialEq the type derives: field by field, floats as IEEE 754 has
\* it, and the unknown fields.
GeneratedFactory_eq(d, a, b) ==
    IF descriptor_dyn(a) # d \/ descriptor_dyn(b) # d THEN "abort"
    ELSE IF /\ FieldsEqFrom(d.name, a, b, Ieee, 0)
            /\ a.unknown_fields = b.unknown_fields
         THEN "true" ELSE "false"

\* MessageDescriptor::eq: get_impl() of a descriptor of a generated file is
\* Generated and of a file loaded at run time Dynamic, and the Dynamic arm
\* is unimplemented!().
MessageDescriptor_eq(d, a, b) ==
    IF d.file_descriptor = "generated"
    THEN GeneratedFactory_eq(d, a, b)
    ELSE "abort"

\* The descriptor of ea compares ea and eb, both of its type.
DescriptorEq ==
    /\ verdict' = [verdict EXCEPT !.eq = MessageDescriptor_eq(descriptor_dyn(ea), ea, eb)]
    /\ UNCHANGED <<ea, eb, cross>>
    /\ EqFrame

EqNext ==
    EqSetA \/ EqSetB \/ EqInsertA \/ EqInsertB \/ Compare \/ CompareAcross \/ DescriptorEq

SpecEq == EqInit /\ [][EqNext]_vars

\* The message holds a NaN in some field.
HasNaN(msg) ==
    \/ get_singular(msg, FieldV) = OptSome(Box(vt, "NaN"))
    \/ \E i \in 1..Len(get_map(msg, FieldMp)) : get_map(msg, FieldMp)[i][2].v = "NaN"

MapContent(map) == {map[i] : i \in 1..Len(map)}

MapValueOf(map, k) == map[MapIndexOf(map, k)][2]

(***************************************************************************)
(* C5.  Map equality is order-independent: two map fields are reflect-     *)
(* equal exactly when they have the same number of entries and every key   *)
(* of the first maps in the second to a reflect-equal value; so two        *)
(* messages whose map fields hold the same entries, inserted in different  *)
(* orders, compare as each compares with itself, which is equal in the     *)
(* mode that treats NaN as equal.                                          *)
(***************************************************************************)
C5_MapEqOrderIndependent ==
    LET a == get_map(ea, FieldMp)
        b == get_map(eb, FieldMp)
        sameEntries == /\ MapContent(a) = MapContent(b)
                       /\ get_reflect(ea, FieldV) = get_reflect(eb, FieldV)
    IN  /\ \A mode \in ReflectEqModes :
               /\ ReflectMapRef_reflect_eq(a, b, mode) <=>
                      /\ Len(a) = Len(b)
                      /\ \A k \in MapKeys(a) :
                             /\ k \in MapKeys(b)
                             /\ ValueReflectEq(MapValueOf(a, k), MapValueOf(b, k), mode)
               /\ sameEntries => (reflect_eq(ea, eb, mode) <=> reflect_eq(ea, ea, mode))
        /\ sameEntries => reflect_eq(ea, eb, NanEqual)

\* The same two entries inserted in opposite orders, compared equal.
C5_Witness ==
    LET a == get_map(ea, FieldMp)
        b == get_map(eb, FieldMp)
    IN  /\ Len(a) = 2 /\ Len(b) = 2
        /\ a[1] = b[2] /\ a[2] = b[1]
        /\ ea.backing = "dynamic"
        /\ verdict.result = TRUE
        /\ reflect_eq(ea, eb, verdict.mode)

(***************************************************************************)
(* C11.  Equality across backings: a dynamic message and a generated       *)
(* message of the same message type that hold the same field values        *)
(* compare equal under reflective equality.                                *)
(***************************************************************************)
C11_EqualAcrossBackings ==
    LET other == SameValuesIn(OtherBacking(ea.backing), ea) IN
    (IsSome(get_singular(ea, FieldV)) /\ ~HasNaN(ea)) =>
        \A mode \in ReflectEqModes :
            /\ reflect_eq_maybe_unrelated(ea, other, mode)
            /\ ~reflect_eq_aborts(ea, other)

\* The message built in the other backing holds, field by field, the values
\* of ea, and the loop over the fields finds the two equal.
SameValuesAcross ==
    LET other == SameValuesIn(OtherBacking(ea.backing), ea) IN
    /\ other.backing # ea.backing
    /\ \A f \in FieldSet(ea.desc) :
           /\ get_reflect(other, f).kind = get_reflect(ea, f).kind
           /\ IF get_reflect(ea, f).kind = "Map"
              THEN MapContent(get_reflect(other, f).v) = MapContent(get_reflect(ea, f).v)
              ELSE get_reflect(other, f).v = get_reflect(ea, f).v
    /\ MessageDescriptor_reflect_eq(ea.desc, ea, other, NanEqual)

(***************************************************************************)
(* C12.  MessageDescriptor::eq returns a boolean verdict for descriptors   *)
(* of either backing, generated or dynamic, when both messages are of the  *)
(* descriptor's type.                                                      *)
(***************************************************************************)
C12_EqReturnsVerdict ==
    /\ (descriptor_dyn(ea) = descriptor_dyn(eb)) =>
           MessageDescriptor_eq(descriptor_dyn(ea), ea, eb) \in {"true", "false"}
    /\ verdict.eq \in {"none", "true", "false"}

\* The descriptor of a generated type returns a verdict for two messages of
\* its type.
GeneratedEqReturnsVerdict ==
    ea.backing = "generated" =>
        /\ MessageDescriptor_eq(descriptor_dyn(ea), ea, eb) \in {"true", "false"}
        /\ verdict.eq # "abort"

(***************************************************************************)
(* Process-wide cached values.  default_instance() of a generated type     *)
(* with a map field goes through a lazy cell, and of a type without one    *)
(* returns the address of a static; the code generator caches three field  *)
(* numbers of DescriptorProto in lazy cells of its own.  A lazy cell is a  *)
(* once-guard (INCOMPLETE, RUNNING, COMPLETE) and a pointer.               *)
(***************************************************************************)
Threads == 1..NumThreads

LazyCells == {"instance", "FIELD_NUMBER", "NESTED_TYPE_NUMBER", "ENUM_TYPE_NUMBER"}

LazyType == "TestMsg"

StaticType == "Sub"

has_map_field(d) == \E f \in FieldSet(d) : FieldProto(f).label = "map"

\* MessageGen::write_default_instance: the path default_instance() takes.
write_default_instance(d) == IF has_map_field(d) THEN "lazy" ELSE "static"

\* MessageGen::fields_except_oneof_and_group (the schema has no group field)
fields_except_oneof_and_group(d) ==
    {f \in fields_except_oneof(d) : FieldProto(f).label # "group"}

\* A static initializer that leaves a value in a field.
write_default_instance_static_dirty(d) ==
    [desc |-> d,
     backing |-> "generated",
     fields |-> [n \in {FieldProto(f).name : f \in fields_except_oneof_and_group(d)} |->
                   IF n = "x" THEN OptSome(7) ELSE <<>>],
     oneofs |-> [o \in OneofsOf(d) |-> OptNone],
     unknown_fields |-> <<>>,
     cached_size |-> 0]

\* MessageGen::write_default_instance_static: the static is written out
\* field by field, each at its default, then the oneofs, the unknown
\* fields and the cached size.
write_default_instance_static(d) ==
    [desc |-> d,
     backing |-> "generated",
     fields |-> [n \in {FieldProto(f).name : f \in fields_except_oneof_and_group(d)} |->
                   DefaultStorage(FieldProto(CHOOSE f \in FieldSet(d) : FieldProto(f).name = n).label)],
     oneofs |-> [o \in OneofsOf(d) |-> OptNone],
     unknown_fields |-> <<>>,
     cached_size |-> 0]

\* Field numbers of google.protobuf.DescriptorProto.
DescriptorProto_fields == [name |-> 1, field |-> 2, nested_type |-> 3, enum_type |-> 4]

DescriptorProto_get_field_by_name(name) ==
    IF name \in DOMAIN DescriptorProto_fields
    THEN OptSome(DescriptorProto_fields[name])
    ELSE OptNone

\* The closure of FIELD_NUMBER.get in MessageGen::new
FIELD_NUMBER_init == Unwrap(DescriptorProto_get_field_by_name("field"))

\* The closure of NESTED_TYPE_NUMBER.get in MessageGen::write_nested
NESTED_TYPE_NUMBER_init == Unwrap(DescriptorProto_get_field_by_name("nested_type"))

\* The closure of ENUM_TYPE_NUMBER.get
ENUM_TYPE_NUMBER_init == Unwrap(DescriptorProto_get_field_by_name("enum_type"))

\* write_default_instance_lazy: the initializer of the cell is T::new.
instance_init == Generated_new(LazyType)

Initializer(c) ==
    CASE c = "instance" -> instance_init
      [] c = "FIELD_NUMBER" -> FIELD_NUMBER_init
      [] c = "NESTED_TYPE_NUMBER" -> NESTED_TYPE_NUMBER_init
      [] c = "ENUM_TYPE_NUMBER" -> ENUM_TYPE_NUMBER_init

\* A call site that evaluates its closure at every call.
StaticDecl_inline(c) == "inline"

\* How the call site of cell c holds its value: each one declares a static
\* LazyV2 and reads it with get(closure).
StaticDecl(c) == "LazyV2"

NullPtr == <<>>

\* The address Box::new returns to the n-th run of the initializer of c.
BoxAddr(c, n) == <<c, n>>

StaticAddr == <<"static", 0>>

Addrs == {BoxAddr(c, 1) : c \in LazyCells} \cup {StaticAddr}

Uninit == [init |-> FALSE, v |-> <<>>]

Idle == [at |-> "idle", cell |-> "", early |-> FALSE]

NoResult == <<>>

LazyInit ==
    /\ cells = [c \in LazyCells |-> [state |-> "INCOMPLETE", ptr |-> NullPtr, inits |-> 0]]
    /\ heap = [a \in Addrs |->
                 IF a = StaticAddr
                 THEN [init |-> TRUE, v |-> write_default_instance_static(StaticType)]
                 ELSE Uninit]
    /\ pc = [t \in Threads |-> Idle]
    /\ got = [t \in Threads |-> NoResult]
    /\ AccIdle /\ IdxIdle /\ EqIdle /\ WireIdle /\ EntIdle /\ ReqIdle /\ JsonIdle /\ CmpIdle /\ ModIdle /\ WrIdle

\* A thread calls default_instance() of the type with a map field, or reads
\* one of the cached field numbers.
CallLazy(t) ==
    /\ \E c \in LazyCells :
           /\ pc[t].at = "idle"
           /\ c = "instance" => write_default_instance(LazyType) = "lazy"
           /\ IF StaticDecl(c) = "LazyV2"
              THEN /\ pc' = [pc EXCEPT ![t] = [at |-> "call_once", cell |-> c,
                                               early |-> cells[c].state # "COMPLETE"]]
                   /\ got' = [got EXCEPT ![t] = NoResult]
                   /\ UNCHANGED <<cells, heap>>
              ELSE /\ cells' = [cells EXCEPT ![c].inits = @ + 1]
                   /\ got' = [got EXCEPT ![t] =
                                 [cell |-> c, ref |-> <<"temporary", t>>, init |-> TRUE,
                                  value |-> Initializer(c), early |-> FALSE]]
                   /\ UNCHANGED <<pc, heap>>
    /\ LazyFrame

\* default_instance() of the type without a map field: `&instance`.
CallStatic(t) ==
    /\ pc[t].at = "idle"
    /\ write_default_instance(StaticType) = "static"
    /\ got' = [got EXCEPT ![t] =
                  [cell |-> "static", ref |-> StaticAddr, init |-> heap[StaticAddr].init,
                   value |-> heap[StaticAddr].v, early |-> TRUE]]
    /\ UNCHANGED <<cells, heap, pc>>
    /\ LazyFrame

\* call_once finds the guard COMPLETE and returns at once.
OnceFast(t) ==
    /\ pc[t].at = "call_once"
    /\ cells[pc[t].cell].state = "COMPLETE"
    /\ pc' = [pc EXCEPT ![t].at = "deref"]
    /\ UNCHANGED <<cells, heap, got>>
    /\ LazyFrame

\* call_once finds the guard INCOMPLETE and takes it; a thread that finds
\* it RUNNING waits.
OnceBegin(t) ==
    /\ pc[t].at = "call_once"
    /\ cells[pc[t].cell].state = "INCOMPLETE"
    /\ cells' = [cells EXCEPT ![pc[t].cell].state = "RUNNING", ![pc[t].cell].inits = @ + 1]
    /\ pc' = [pc EXCEPT ![t].at = "alloc"]
    /\ UNCHANGED <<heap, got>>
    /\ LazyFrame

\* Box::new(init()): the box is allocated, then the value is moved in.
InitAlloc(t) ==
    /\ pc[t].at = "alloc"
    /\ heap' = [heap EXCEPT ![BoxAddr(pc[t].cell, cells[pc[t].cell].inits)] = Uninit]
    /\ pc' = [pc EXCEPT ![t].at = "write"]
    /\ UNCHANGED <<cells, got>>
    /\ LazyFrame

InitWrite(t) ==
    /\ pc[t].at = "write"
    /\ heap' = [heap EXCEPT ![BoxAddr(pc[t].cell, cells[pc[t].cell].inits)] =
                   [init |-> TRUE, v |-> Initializer(pc[t].cell)]]
    /\ pc' = [pc EXCEPT ![t].at = "publish"]
    /\ UNCHANGED <<cells, got>>
    /\ LazyFrame

\* The pointer of the cell is set to the box.
InitPublish(t) ==
    /\ pc[t].at = "publish"
    /\ cells' = [cells EXCEPT ![pc[t].cell].ptr = BoxAddr(pc[t].cell, cells[pc[t].cell].inits)]
    /\ pc' = [pc EXCEPT ![t].at = "finish"]
    /\ UNCHANGED <<heap, got>>
    /\ LazyFrame

\* The closure of call_once returns: the guard becomes COMPLETE.
OnceFinish(t) ==
    /\ pc[t].at = "finish"
    /\ cells' = [cells EXCEPT ![pc[t].cell].state = "COMPLETE"]
    /\ pc' = [pc EXCEPT ![t].at = "deref"]
    /\ UNCHANGED <<heap, got>>
    /\ LazyFrame

\* get returns the reference the pointer holds; the caller reads through it.
Deref(t) ==
    /\ pc[t].at = "deref"
    /\ got' = [got EXCEPT ![t] =
                  [cell |-> pc[t].cell, ref |-> cells[pc[t].cell].ptr,
                   init |-> heap[cells[pc[t].cell].ptr].init,
                   value |-> heap[cells[pc[t].cell].ptr].v,
                   early |-> pc[t].early]]
    /\ pc' = [pc EXCEPT ![t] = Idle]
    /\ UNCHANGED <<cells, heap>>
    /\ LazyFrame

LazyNext ==
    \E t \in Threads :
        \/ CallLazy(t)
        \/ CallStatic(t)
        \/ OnceFast(t)
        \/ OnceBegin(t)
        \/ InitAlloc(t)
        \/ InitWrite(t)
        \/ InitPublish(t)
        \/ OnceFinish(t)
        \/ Deref(t)

SpecLazy == LazyInit /\ [][LazyNext]_vars

Returned(t) == got[t] # NoResult

\* Every field of the message is at its zero value.
AllFieldsZero(msg) ==
    \A f \in FieldSet(msg.desc) :
        LET label == FieldProto(f).label IN
        /\ label = "singular" =>
               /\ ~has_field(msg, f)
               /\ ElemType(f) # "Message" =>
                      get_singular_field_or_default(msg, f) = ZeroBox(ElemType(f))
        /\ label = "repeated" => get_repeated(msg, f) = <<>>
        /\ label = "map" => get_map(msg, f) = <<>>

(***************************************************************************)
(* C6.  Default-instance singleton: every reference default_instance()     *)
(* returns for a type is the same reference, whichever thread asked and    *)
(* whether or not it asked before the first construction had finished,     *)
(* and the instance behind it is constructed, with all fields at their     *)
(* zero value, when the caller observes it; on the lazy path and on the    *)
(* static path.                                                            *)
(***************************************************************************)
C6_DefaultInstanceSingleton ==
    \A t \in Threads :
        (Returned(t) /\ got[t].cell \in {"instance", "static"}) =>
            /\ got[t].init
            /\ AllFieldsZero(got[t].value)
            /\ got[t].value.desc = IF got[t].cell = "instance" THEN LazyType ELSE StaticType
            /\ got[t].cell = "instance" => got[t].ref = cells["instance"].ptr
            /\ \A u \in Threads :
                   (Returned(u) /\ got[u].cell = got[t].cell) => got[u].ref = got[t].ref

\* Two threads that both asked for the lazy default instance before it was
\* built hold their references.
C6_Witness ==
    \E t, u \in Threads :
        /\ t # u
        /\ Returned(t) /\ got[t].cell = "instance" /\ got[t].early
        /\ Returned(u) /\ got[u].cell = "instance" /\ got[u].early
        /\ got[t].ref = BoxAddr("instance", 1)

(***************************************************************************)
(* C7.  Once-only initialization: the initializer of each lazy cell (the   *)
(* lazy default instance, FIELD_NUMBER, NESTED_TYPE_NUMBER and             *)
(* ENUM_TYPE_NUMBER) runs at most once under every interleaving, and a     *)
(* call made after the initialization has completed returns the value of   *)
(* that one run without running the initializer again.                     *)
(***************************************************************************)
C7_OnceOnlyInit ==
    \A c \in LazyCells :
        /\ cells[c].inits <= 1
        /\ cells[c].state = "COMPLETE" =>
               /\ cells[c].inits = 1
               /\ cells[c].ptr = BoxAddr(c, 1)
               /\ heap[BoxAddr(c, 1)] = [init |-> TRUE, v |-> Initializer(c)]
        /\ \A t \in Threads :
               (Returned(t) /\ got[t].cell = c) =>
                   /\ cells[c].state = "COMPLETE"
                   /\ got[t].ref = BoxAddr(c, 1)
                   /\ got[t].init
                   /\ got[t].value = Initializer(c)

\* One thread read FIELD_NUMBER in a call that began after the
\* initialization had completed; another had called before that.
C7_Witness ==
    \E t, u \in Threads :
        /\ Returned(t) /\ got[t].cell = "FIELD_NUMBER" /\ ~got[t].early
        /\ Returned(u) /\ got[u].cell = "FIELD_NUMBER" /\ got[u].early
        /\ cells["FIELD_NUMBER"].inits = 1

(***************************************************************************)
(* Wire format.  A stream is a sequence of bytes; a field is a tag (field  *)
(* number and wire type in one varint) and a payload whose shape the wire  *)
(* type gives.  Varints here are of one or two bytes.                      *)
(***************************************************************************)
WireTypes == {"Varint", "Fixed64", "LengthDelimited", "StartGroup", "EndGroup", "Fixed32"}

WireTypeNumber(wt) ==
    CASE wt = "Varint" -> 0
      [] wt = "Fixed64" -> 1
      [] wt = "LengthDelimited" -> 2
      [] wt = "StartGroup" -> 3
      [] wt = "EndGroup" -> 4
      [] wt = "Fixed32" -> 5

WireTypeOf(n) == CHOOSE wt \in WireTypes : WireTypeNumber(wt) = n

\* write_raw_varint32, for 0 <= v < 2^14
Varint(v) == IF v < 128 THEN <<v>> ELSE <<128 + (v % 128), v \div 128>>

\* read_raw_varint: [value, pos], pos the position after the varint
read_raw_varint(bytes, pos) ==
    IF bytes[pos] < 128
    THEN [value |-> bytes[pos], pos |-> pos + 1]
    ELSE [value |-> (bytes[pos] - 128) + 128 * bytes[pos + 1], pos |-> pos + 2]

Tag(number, wt) == Varint(number * 8 + WireTypeNumber(wt))

\* CodedInputStream::read_tag_unpack
read_tag_unpack(bytes, pos) ==
    LET v == read_raw_varint(bytes, pos) IN
    [field_number |-> v.value \div 8, wire_type |-> WireTypeOf(v.value % 8), pos |-> v.pos]

\* CodedInputStream::read_unknown: the payload of a field that is not a
\* group, as an UnknownValue, and the position after it.
read_unknown(wire_type, bytes, pos) ==
    CASE wire_type = "Varint" ->
            LET v == read_raw_varint(bytes, pos) IN [value |-> <<v.value>>, pos |-> v.pos]
      [] wire_type = "Fixed64" ->
            [value |-> SubSeq(bytes, pos, pos + 7), pos |-> pos + 8]
      [] wire_type = "Fixed32" ->
            [value |-> SubSeq(bytes, pos, pos + 3), pos |-> pos + 4]
      [] wire_type = "LengthDelimited" ->
            LET l == read_raw_varint(bytes, pos) IN
            [value |-> SubSeq(bytes, l.pos, l.pos + l.value - 1), pos |-> l.pos + l.value]

RECURSIVE skip_group(_, _)
RECURSIVE skip_field(_, _, _)

\* The position after the field whose tag has just been read.
skip_field(wire_type, bytes, pos) ==
    IF wire_type = "StartGroup"
    THEN skip_group(bytes, pos)
    ELSE read_unknown(wire_type, bytes, pos).pos

\* CodedInputStream::skip_group: skip fields up to the end-group tag.
skip_group(bytes, pos) ==
    LET tag == read_tag_unpack(bytes, pos) IN
    IF tag.wire_type = "EndGroup"
    THEN tag.pos
    ELSE skip_group(bytes, skip_field(tag.wire_type, bytes, tag.pos))

\* UnknownFields::add_value
add_value(unknown_fields, field_number, wire_type, value) ==
    Append(unknown_fields,
           [number |-> field_number, wire_type |-> wire_type, value |-> value])

\* rt::read_unknown_or_skip_group: the payload is stored in the unknown
\* fields, except that a group is skipped.
read_unknown_or_skip_group(field_number, wire_type, bytes, pos, unknown_fields) ==
    IF wire_type = "StartGroup"
    THEN [pos |-> skip_group(bytes, pos), unknown_fields |-> unknown_fields]
    ELSE LET r == read_unknown(wire_type, bytes, pos) IN
         [pos |-> r.pos,
          unknown_fields |-> add_value(unknown_fields, field_number, wire_type, r.value)]

\* MessageGen::fields_except_group (the schema has no group field)
fields_except_group(d) == {f \in FieldSet(d) : FieldProto(f).label # "group"}

\* write_merge_from_field of a singular int32 field: read the varint and
\* set the field.
write_merge_from_field(msg, f, bytes, pos) ==
    LET v == read_raw_varint(bytes, pos) IN
    [msg |-> Generated_set_singular(msg, f, Box(ElemType(f), v.value)), pos |-> v.pos]

RECURSIVE merge_from_at(_, _, _)

\* The loop `while !is.eof()` of the generated merge_from.
merge_from_at(msg, bytes, pos) ==
    IF pos > Len(bytes) THEN msg
    ELSE LET tag == read_tag_unpack(bytes, pos) IN
         IF \E f \in fields_except_group(msg.desc) : FieldProto(f).number = tag.field_number
         THEN LET f == CHOOSE g \in fields_except_group(msg.desc) :
                          FieldProto(g).number = tag.field_number
                  r == write_merge_from_field(msg, f, bytes, tag.pos)
              IN  merge_from_at(r.msg, bytes, r.pos)
         ELSE LET r == read_unknown_or_skip_group(tag.field_number, tag.wire_type,
                                                  bytes, tag.pos, msg.unknown_fields)
              IN  merge_from_at([msg EXCEPT !.unknown_fields = r.unknown_fields],
                                bytes, r.pos)

\* The generated Message::merge_from
merge_from(msg, bytes) == merge_from_at(msg, bytes, 1)

\* write_message_write_field of a singular int32 field
write_message_write_field(msg, f) ==
    LET v == Generated_get_singular(msg, f) IN
    IF IsSome(v) THEN Tag(FieldProto(f).number, "Varint") \o Varint(Unwrap(v).v) ELSE <<>>

\* CodedOutputStream::write_unknown: the tag, then the value as its wire
\* type encodes it.
write_unknown(u) ==
    Tag(u.number, u.wire_type) \o
        CASE u.wire_type = "Varint" -> Varint(u.value[1])
          [] u.wire_type = "LengthDelimited" -> Varint(Len(u.value)) \o u.value
          [] OTHER -> u.value

RECURSIVE write_unknown_fields(_)

write_unknown_fields(unknown_fields) ==
    IF unknown_fields = <<>> THEN <<>>
    ELSE write_unknown(Head(unknown_fields)) \o write_unknown_fields(Tail(unknown_fields))

RECURSIVE WriteFieldsFrom(_, _)

\* The declared fields, in declaration order, from index i on.
WriteFieldsFrom(msg, i) ==
    IF i >= Len(fields(msg.desc)) THEN <<>>
    ELSE (IF fields(msg.desc)[i + 1] \in fields_except_oneof_and_group(msg.desc)
          THEN write_message_write_field(msg, fields(msg.desc)[i + 1])
          ELSE <<>>) \o WriteFieldsFrom(msg, i + 1)

\* A write_to_with_cached_sizes that ends after the declared fields.
write_to_with_cached_sizes_declared_only(msg) == WriteFieldsFrom(msg, 0)

\* MessageGen::write_write_to_with_cached_sizes: the declared fields, then
\* os.write_unknown_fields(self.get_unknown_fields()).
write_to_with_cached_sizes(msg) ==
    WriteFieldsFrom(msg, 0) \o write_unknown_fields(msg.unknown_fields)

\* MessageGen::write_compute_size: the size is computed and cached.
compute_size(msg) == Len(write_to_with_cached_sizes(msg))

\* A getter that computes the size anew at every call.
get_cached_size_recomputed(msg) == Len(write_to_with_cached_sizes(msg))

\* MessageGen::write_get_cached_size: self.cached_size.get()
get_cached_size(msg) == msg.cached_size

\* MessageGen::write_impl_clear: every field and the unknown fields.
Clear_clear(msg) ==
    [msg EXCEPT !.fields = [n \in DOMAIN @ |-> <<>>],
                !.oneofs = [o \in DOMAIN @ |-> OptNone],
                !.unknown_fields = <<>>]

(***************************************************************************)
(* A message of type Sub (one declared field, x = 1) that decodes streams, *)
(* has its declared field mutated, and encodes.                            *)
(***************************************************************************)
WireType == "Sub"

\* The encoded fields that input streams are made of: the declared field,
\* and undeclared fields of every wire type.
EntryPool ==
    { Tag(1, "Varint") \o Varint(7),
      Tag(2, "Varint") \o Varint(300),
      Tag(2, "Fixed32") \o <<1, 0, 0, 0>>,
      Tag(3, "Fixed64") \o <<2, 0, 0, 0, 0, 0, 0, 0>>,
      Tag(3, "LengthDelimited") \o Varint(1) \o <<9>>,
      Tag(4, "StartGroup") \o Tag(1, "Varint") \o Varint(1) \o Tag(4, "EndGroup") }

RECURSIVE Concat(_)

Concat(ss) == IF ss = <<>> THEN <<>> ELSE Head(ss) \o Concat(Tail(ss))

Streams == {Concat(ss) : ss \in SeqsUpTo(EntryPool, MaxEntries)}

RECURSIVE EntriesFrom(_, _)

\* The fields of a stream, each with its number and its bytes.
EntriesFrom(bytes, pos) ==
    IF pos > Len(bytes) THEN <<>>
    ELSE LET tag == read_tag_unpack(bytes, pos)
             end == skip_field(tag.wire_type, bytes, tag.pos)
         IN  <<[number |-> tag.field_number, wire_type |-> tag.wire_type,
                bytes |-> SubSeq(bytes, pos, end - 1)]>> \o EntriesFrom(bytes, end)

Declared(d, number) == \E f \in FieldSet(d) : FieldProto(f).number = number

\* The fields of a stream whose number the message type does not declare.
UnknownEntries(d, bytes) ==
    SelectSeq(EntriesFrom(bytes, 1), LAMBDA e : ~Declared(d, e.number))

\* Each input stream with the undeclared fields in it.
StreamsWithUnknown ==
    {[bytes |-> bytes, unknown |-> UnknownEntries(WireType, bytes)] : bytes \in Streams}

XValues == {7, 300}

WireInit ==
    /\ wm = Generated_new(WireType)
    /\ fed = <<>>
    /\ touched = FALSE
    /\ out = OptNone
    /\ AccIdle /\ IdxIdle /\ EqIdle /\ LazyIdle /\ EntIdle /\ ReqIdle /\ JsonIdle /\ CmpIdle /\ ModIdle /\ WrIdle

WMergeFrom ==
    /\ \E s \in StreamsWithUnknown :
           /\ Len(fed) + Len(s.unknown) <= MaxEntries
           /\ wm' = merge_from(wm, s.bytes)
           /\ fed' = fed \o s.unknown
           /\ touched' = FALSE
           /\ out' = OptNone
    /\ WireFrame

\* The setter of the declared field.
WSetX ==
    /\ \E v \in XValues :
           /\ wm' = set_singular_field(wm, SubX, Box("I32", v))
           /\ touched' = TRUE
           /\ out' = OptNone
           /\ UNCHANGED fed
    /\ WireFrame

WClearX ==
    /\ wm' = clear_field(wm, SubX)
    /\ touched' = TRUE
    /\ out' = OptNone
    /\ UNCHANGED fed
    /\ WireFrame

\* Message::write_to_bytes: compute_size, then write_to_with_cached_sizes.
WEncode ==
    /\ wm' = [wm EXCEPT !.cached_size = compute_size(wm)]
    /\ out' = OptSome(write_to_with_cached_sizes(wm))
    /\ UNCHANGED <<fed, touched>>
    /\ WireFrame

\* Clear::clear
WClear ==
    /\ wm' = Clear_clear(wm)
    /\ fed' = <<>>
    /\ touched' = FALSE
    /\ out' = OptNone
    /\ WireFrame

WireNext == WMergeFrom \/ WSetX \/ WClearX \/ WEncode \/ WClear

SpecWire == WireInit /\ [][WireNext]_vars

Count(seq, e) == Cardinality({i \in 1..Len(seq) : seq[i] = e})

EntrySet(seq) == {seq[i] : i \in 1..Len(seq)}

IsGroupEntry(e) == e.wire_type = "StartGroup"

\* The undeclared fields decoded so far that are not groups.
FedKept == SelectSeq(fed, LAMBDA e : ~IsGroupEntry(e))

StoredEntries ==
    [i \in 1..Len(wm.unknown_fields) |->
        [number |-> wm.unknown_fields[i].number,
         wire_type |-> wm.unknown_fields[i].wire_type,
         bytes |-> write_unknown(wm.unknown_fields[i])]]

SizedTestMsg(b) == [new_instance(b, "TestMsg") EXCEPT !.cached_size = wm.cached_size]

\* Set, insert, push and clear through the accessors of a message leave its
\* cached size slot as it was.
MutatorsKeepCachedSize ==
    \A b \in Backings :
        LET t == SizedTestMsg(b) IN
        /\ \A f \in SingularFields : \A box \in ValidValues(b, ElemType(f)) :
               /\ get_cached_size(set_singular_field(t, f, box)) = get_cached_size(t)
               /\ get_cached_size(clear_field(set_singular_field(t, f, box), f)) = get_cached_size(t)
        /\ \A f \in RepeatedFields : \A box \in ValidValues(b, ElemType(f)) :
               /\ get_cached_size(mut_repeated_push(t, f, box)) = get_cached_size(t)
               /\ get_cached_size(mut_repeated_clear(mut_repeated_push(t, f, box), f)) =
                      get_cached_size(t)
        /\ \A k \in MapKeyPool, p \in MapValuePool :
               LET ins == mut_map_insert(t, FieldMp, Box("I32", k), Box("F64", p)) IN
               /\ get_cached_size(ins) = get_cached_size(t)
               /\ get_cached_size(mut_map_clear(ins, FieldMp)) = get_cached_size(t)

\* A step that encodes stores the size of the message; every other step,
\* which decodes into the message or mutates it, keeps what is stored.
CachedSizeStep ==
    IF IsSome(out')
    THEN /\ get_cached_size(wm') = compute_size(wm')
         /\ get_cached_size(wm') = Len(Unwrap(out'))
    ELSE get_cached_size(wm') = get_cached_size(wm)

Mutations(t) ==
    LET b == t.backing IN
    UNION {
      UNION {{[f |-> f, r |-> set_singular_field(t, f, box)] :
                 box \in ValidValues(b, ElemType(f))} : f \in SingularFields},
      {[f |-> f, r |-> clear_field(t, f)] : f \in SingularFields},
      UNION {{[f |-> f, r |-> mut_repeated_push(t, f, box)] :
                 box \in ValidValues(b, ElemType(f))} : f \in RepeatedFields},
      {[f |-> f, r |-> mut_repeated_clear(t, f)] : f \in RepeatedFields},
      {[f |-> FieldMp, r |-> mut_map_insert(t, FieldMp, Box("I32", k), Box("F64", p))] :
          k \in MapKeyPool, p \in MapValuePool},
      {[f |-> FieldMp, r |-> mut_map_clear(t, FieldMp)]} }

\* g is another member of the oneof f is a member of.
OneofSibling(f, g) == FieldProto(f).oneof # "" /\ FieldProto(f).oneof = FieldProto(g).oneof

\* The message the operations act on, as it is, with an unknown field
\* stored, and with a map entry.
FrameInputs ==
    LET u == [m EXCEPT !.unknown_fields =
                 <<[number |-> 9, value |-> <<300>>, wire_type |-> "Varint"]>>]
    IN  {m, u, mut_map_insert(u, FieldMp, Box("I32", 1), Box("F64", "1.5"))}

(***************************************************************************)
(* C14.  Frame of mutators: a set, insert, push or clear applied through   *)
(* the accessor of field f of a message changes only f: every other field  *)
(* that is not a member of the same oneof as f, and the unknown fields,    *)
(* are after the operation what they were before it.                       *)
(***************************************************************************)
C14_MutatorFrame ==
    \A t \in FrameInputs : \A mu \in Mutations(t) :
        /\ \A g \in FieldSet(t.desc) :
               (g # mu.f /\ ~OneofSibling(mu.f, g)) => get_reflect(mu.r, g) = get_reflect(t, g)
        /\ mu.r.unknown_fields = t.unknown_fields

\* A member of the oneof was set on a message that holds a value in v and
\* pushed elements in ii, and these are still there; the operations that
\* can follow include some that change their own field.
C14_Witness ==
    /\ last.op = "set"
    /\ FieldProto(last.f).oneof = "o"
    /\ has_field(m, FieldV)
    /\ Len(get_repeated(m, FieldDescriptor("TestMsg", 1))) = 2
    /\ \E t \in FrameInputs : \E mu \in Mutations(t) :
           /\ t.unknown_fields # <<>>
           /\ get_reflect(mu.r, mu.f) # get_reflect(t, mu.f)
           /\ get_map(t, FieldMp) # <<>>


(***************************************************************************)
(* Map-entry messages.  A message declaration (DescriptorProto) carries    *)
(* its name, its options, its fields and its nested types, enums,          *)
(* extensions and extension ranges (here their counts).  The code          *)
(* generator's map_entry() and the descriptor's is_map_entry() are applied *)
(* to declarations of every shape, flagged as map entry or not.            *)
(***************************************************************************)
EntryFieldPool ==
    { [name |-> "key", number |-> 1, label |-> "LABEL_OPTIONAL"],
      [name |-> "value", number |-> 2, label |-> "LABEL_OPTIONAL"],
      [name |-> "k", number |-> 1, label |-> "LABEL_OPTIONAL"],
      [name |-> "val", number |-> 2, label |-> "LABEL_OPTIONAL"],
      [name |-> "key", number |-> 3, label |-> "LABEL_OPTIONAL"],
      [name |-> "value", number |-> 1, label |-> "LABEL_OPTIONAL"],
      [name |-> "key", number |-> 1, label |-> "LABEL_REPEATED"],
      [name |-> "value", number |-> 2, label |-> "LABEL_REQUIRED"] }

NoEntryField == [name |-> "", number |-> 0, label |-> ""]

\* Nothing besides the fields, or one extension, extension range, nested
\* type or enum.
EntryExtras ==
    { [extension |-> 0, extension_range |-> 0, nested_type |-> 0, enum_type |-> 0],
      [extension |-> 1, extension_range |-> 0, nested_type |-> 0, enum_type |-> 0],
      [extension |-> 0, extension_range |-> 1, nested_type |-> 0, enum_type |-> 0],
      [extension |-> 0, extension_range |-> 0, nested_type |-> 1, enum_type |-> 0],
      [extension |-> 0, extension_range |-> 0, nested_type |-> 0, enum_type |-> 1] }

\* Message names, as the words they are made of.
EntryNames == {<<"Mp", "Entry">>, <<"Entry", "Mp">>}

ends_with(name, word) == Len(name) > 0 /\ name[Len(name)] = word

EntryProtos ==
    { [name |-> n, options |-> [map_entry |-> flag], field |-> fs, extras |-> x] :
        n \in EntryNames, flag \in BOOLEAN,
        fs \in SeqsUpTo(EntryFieldPool, MaxEntryFields), x \in EntryExtras }

\* The shape of a map entry: exactly two fields, `key` numbered 1 and
\* `value` numbered 2, both singular, and no nested types, enums or
\* extensions.
HasMapEntryShape(d) ==
    /\ Len(d.field) = 2
    /\ \E i, j \in 1..2 :
           /\ i # j
           /\ d.field[i] = [name |-> "key", number |-> 1, label |-> "LABEL_OPTIONAL"]
           /\ d.field[j] = [name |-> "value", number |-> 2, label |-> "LABEL_OPTIONAL"]
    /\ d.extras.nested_type = 0
    /\ d.extras.enum_type = 0
    /\ d.extras.extension = 0

\* A detection that goes by the shape of the message.
is_map_entry_by_shape(d) == HasMapEntryShape(d)

\* MessageDescriptor::is_map_entry: the map_entry option of the message.
is_map_entry(d) == d.options.map_entry

EntryAbort == [status |-> "abort", key |-> NoEntryField, value |-> NoEntryField]

EntryNone == [status |-> "None", key |-> NoEntryField, value |-> NoEntryField]

\* A map_entry that checks of the fields only that there are two.
map_entry_lenient(d) ==
    IF d.options.map_entry
    THEN IF Len(d.field) # 2 THEN EntryAbort
         ELSE [status |-> "Some", key |-> d.field[1], value |-> d.field[2]]
    ELSE EntryNone

\* map_entry (protobuf-codegen/src/map.rs): for a flagged message, the
\* asserts in the order of the code, then Some((key, value)); None for a
\* message that is not flagged.
map_entry(d) ==
    IF d.options.map_entry
    THEN IF ~ends_with(d.name, "Entry") THEN EntryAbort
         ELSE IF d.extras.extension # 0 THEN EntryAbort
         ELSE IF d.extras.extension_range # 0 THEN EntryAbort
         ELSE IF d.extras.nested_type # 0 THEN EntryAbort
         ELSE IF d.extras.enum_type # 0 THEN EntryAbort
         ELSE IF Len(d.field) # 2 THEN EntryAbort
         ELSE LET key == d.field[1]
                  value == d.field[2]
              IN  IF key.name # "key" THEN EntryAbort
                  ELSE IF value.name # "value" THEN EntryAbort
                  ELSE IF key.number # 1 THEN EntryAbort
                  ELSE IF value.number # 2 THEN EntryAbort
                  ELSE IF key.label # "LABEL_OPTIONAL" THEN EntryAbort
                  ELSE IF value.label # "LABEL_OPTIONAL" THEN EntryAbort
                  ELSE [status |-> "Some", key |-> key, value |-> value]
    ELSE EntryNone

\* An instance of a message type as a descriptor hands it out: the fields
\* that are set, the unknown fields, and whether it is the one instance of
\* the type in static storage or a box of its own.
NoInstance == [desc |-> <<>>, present |-> {}, unknown_fields |-> <<>>, shared |-> FALSE]

EmptyInstance(d, shared) ==
    [desc |-> d.name, present |-> {}, unknown_fields |-> <<>>, shared |-> shared]

Instance(status, instance) == [status |-> status, instance |-> instance]

\* A new_instance without the assertion.
MessageDescriptor_new_instance_unasserted(b, d) ==
    Instance("Some", EmptyInstance(d, FALSE))

\* MessageDescriptor::new_instance: assert_not_map_entry(), then
\* factory.new_instance() or Box::new(DynamicMessage::new(..)).
MessageDescriptor_new_instance(b, d) ==
    IF is_map_entry(d) THEN Instance("abort", NoInstance)
    ELSE IF b = "generated" THEN Instance("Some", EmptyInstance(d, FALSE))
    ELSE Instance("Some", EmptyInstance(d, FALSE))

\* MessageDescriptor::default_instance: assert_not_map_entry(), then
\* Some(factory.default_instance()) for a generated message and None for
\* a dynamic one.
MessageDescriptor_default_instance(b, d) ==
    IF is_map_entry(d) THEN Instance("abort", NoInstance)
    ELSE IF b = "generated" THEN Instance("Some", EmptyInstance(d, TRUE))
    ELSE Instance("None", NoInstance)

EntInit ==
    /\ ep \in EntryProtos
    /\ er = [op |-> "none", status |-> "none", key |-> NoEntryField, value |-> NoEntryField,
             backing |-> "", instance |-> NoInstance]
    /\ AccIdle /\ IdxIdle /\ EqIdle /\ LazyIdle /\ WireIdle /\ ReqIdle /\ JsonIdle /\ CmpIdle /\ ModIdle /\ WrIdle

CallMapEntry ==
    /\ LET r == map_entry(ep) IN
       er' = [op |-> "map_entry", status |-> r.status, key |-> r.key, value |-> r.value,
              backing |-> "", instance |-> NoInstance]
    /\ UNCHANGED ep
    /\ EntFrame

CallIsMapEntry ==
    /\ er' = [op |-> "is_map_entry",
              status |-> IF is_map_entry(ep) THEN "true" ELSE "false",
              key |-> NoEntryField, value |-> NoEntryField,
              backing |-> "", instance |-> NoInstance]
    /\ UNCHANGED ep
    /\ EntFrame

\* new_instance() of the descriptor of ep, of the backing b.
CallNewInstance ==
    /\ \E b \in Backings :
           LET r == MessageDescriptor_new_instance(b, ep) IN
           er' = [op |-> "new_instance", status |-> r.status,
                  key |-> NoEntryField, value |-> NoEntryField,
                  backing |-> b, instance |-> r.instance]
    /\ UNCHANGED ep
    /\ EntFrame

\* default_instance() of the descriptor of ep, of the backing b.
CallDefaultInstance ==
    /\ \E b \in Backings :
           LET r == MessageDescriptor_default_instance(b, ep) IN
           er' = [op |-> "default_instance", status |-> r.status,
                  key |-> NoEntryField, value |-> NoEntryField,
                  backing |-> b, instance |-> r.instance]
    /\ UNCHANGED ep
    /\ EntFrame

EntNext == CallMapEntry \/ CallIsMapEntry \/ CallNewInstance \/ CallDefaultInstance

SpecEntry == EntInit /\ [][EntNext]_vars

(***************************************************************************)
(* C15.  Map-entry detection, as stated: a message with exactly two        *)
(* fields, key numbered 1 and value numbered 2, both singular, and no      *)
(* nested types, enums or extensions is recognized as a map entry, and a   *)
(* message that violates one of these is not.                              *)
(***************************************************************************)
C15_AsStated ==
    /\ is_map_entry(ep) <=> HasMapEntryShape(ep)
    /\ er.op = "is_map_entry" => (er.status = "true" <=> HasMapEntryShape(ep))
    /\ er.op = "map_entry" => (er.status = "Some" <=> HasMapEntryShape(ep))

(***************************************************************************)
(* C15.  Map-entry detection goes by the map_entry option: a message is    *)
(* recognized as a map entry exactly when the option is set.  A message    *)
(* of the map-entry shape without the option is not recognized (map_entry  *)
(* returns None), and a message with the option is recognized whatever     *)
(* its shape (is_map_entry is true, map_entry returns a pair or aborts,    *)
(* never None).                                                            *)
(***************************************************************************)
C15_DetectionByOption ==
    /\ is_map_entry(ep) <=> ep.options.map_entry
    /\ map_entry(ep).status = "None" <=> ~ep.options.map_entry
    /\ er.op = "is_map_entry" => (er.status = "true" <=> ep.options.map_entry)
    /\ er.op = "map_entry" => (er.status = "None" <=> ~ep.options.map_entry)

\* A message of the map-entry shape that is not flagged was given to
\* map_entry, which returned None.
C15_Witness ==
    /\ HasMapEntryShape(ep)
    /\ ~ep.options.map_entry
    /\ er.op = "map_entry"
    /\ er.status = "None"

\* What map_entry requires of a flagged message, as the claim lists it.
EntryWellFormed(d) ==
    /\ d.extras.extension = 0
    /\ d.extras.extension_range = 0
    /\ d.extras.nested_type = 0
    /\ d.extras.enum_type = 0
    /\ Len(d.field) = 2
    /\ d.field[1].name = "key" /\ d.field[1].number = 1
    /\ d.field[2].name = "value" /\ d.field[2].number = 2
    /\ d.field[1].label = "LABEL_OPTIONAL"
    /\ d.field[2].label = "LABEL_OPTIONAL"

(***************************************************************************)
(* C16.  A malformed map-entry message never yields a usable result: for   *)
(* a message flagged as map entry, map_entry returns a (key, value) pair   *)
(* only if the message has no extensions, extension ranges, nested types   *)
(* or enums and exactly two fields, the first `key` numbered 1 and the     *)
(* second `value` numbered 2, both optional; the pair is these two fields; *)
(* for a flagged message that violates one of these it aborts.             *)
(***************************************************************************)
C16_MalformedEntryAborts ==
    ep.options.map_entry =>
        /\ map_entry(ep).status = "Some" =>
               /\ EntryWellFormed(ep)
               /\ map_entry(ep).key = ep.field[1]
               /\ map_entry(ep).value = ep.field[2]
        /\ ~EntryWellFormed(ep) => map_entry(ep).status = "abort"
        /\ er.op = "map_entry" =>
               /\ er.status \in {"Some", "abort"}
               /\ er.status = "Some" => EntryWellFormed(ep)
               /\ ~EntryWellFormed(ep) => er.status = "abort"

\* A flagged message with two fields of the right names and a wrong number
\* was given to map_entry, which aborted.
C16_Witness ==
    /\ ep.options.map_entry
    /\ ends_with(ep.name, "Entry")
    /\ Len(ep.field) = 2
    /\ ep.field[1].name = "key" /\ ep.field[2].name = "value"
    /\ ep.field[1].number = 3
    /\ er.op = "map_entry"
    /\ er.status = "abort"

\* A well-formed flagged message was given to map_entry, which returned its
\* two fields.
EntryReturned ==
    /\ EntryWellFormed(ep)
    /\ er.op = "map_entry"
    /\ er.status = "Some"
    /\ er.key = ep.field[1]


IsEmptyInstanceOf(i, d) ==
    /\ i.desc = d.name
    /\ i.present = {}
    /\ i.unknown_fields = <<>>

(***************************************************************************)
(* C25.  Map-entry descriptors hand out no instances: new_instance() and   *)
(* default_instance() abort for a map-entry descriptor; for any other      *)
(* descriptor new_instance() returns an empty message of the type, and     *)
(* default_instance() returns the shared instance for a generated message  *)
(* and None for a dynamic one.                                             *)
(***************************************************************************)
C25_NoInstanceOfMapEntry ==
    /\ er.op = "new_instance" =>
           IF is_map_entry(ep)
           THEN er.status = "abort"
           ELSE /\ er.status = "Some"
                /\ IsEmptyInstanceOf(er.instance, ep)
                /\ ~er.instance.shared
    /\ er.op = "default_instance" =>
           IF is_map_entry(ep)
           THEN er.status = "abort"
           ELSE IF er.backing = "generated"
           THEN /\ er.status = "Some"
                /\ IsEmptyInstanceOf(er.instance, ep)
                /\ er.instance.shared
           ELSE er.status = "None"

\* default_instance() of a dynamic descriptor of a well-formed map entry
\* has aborted.
C25_Witness ==
    /\ is_map_entry(ep)
    /\ EntryWellFormed(ep)
    /\ er.op = "default_instance"
    /\ er.backing = "dynamic"
    /\ er.status = "abort"

\* new_instance() of a descriptor that is no map entry returned a message.
InstanceReturned ==
    /\ ~is_map_entry(ep)
    /\ er.op = "new_instance"
    /\ er.status = "Some"


(***************************************************************************)
(* The fields MessageDescriptor::reflect_eq visits: the loop                *)
(* `for field in self.fields()` fetches and compares field after field and *)
(* returns at the first that differs.                                      *)
(***************************************************************************)
RECURSIVE VisitedFrom(_, _, _, _, _)
VisitedFrom(d, a, b, mode, i) ==
    IF i >= Len(fields(d)) THEN <<>>
    ELSE IF ~ReflectFieldRef_reflect_eq(get_reflect(a, fields(d)[i + 1]),
                                        get_reflect(b, fields(d)[i + 1]), mode)
         THEN <<fields(d)[i + 1]>>
         ELSE <<fields(d)[i + 1]>> \o VisitedFrom(d, a, b, mode, i + 1)

FieldsEqual(a, b, f, mode) ==
    ReflectFieldRef_reflect_eq(get_reflect(a, f), get_reflect(b, f), mode)

Sym(c) == [k |-> "sym", v |-> <<c>>]

StrLit(chars) == [k |-> "str", v |-> chars]

Num(chars) == [k |-> "num", v |-> chars]

JOk(msg, pos) == [status |-> "Ok", error |-> "", msg |-> msg, pos |-> pos]

JErr(error, msg, pos) == [status |-> "Err", error |-> error, msg |-> msg, pos |-> pos]

JAbort(msg, pos) == [status |-> "abort", error |-> "", msg |-> msg, pos |-> pos]

Digits == {"0", "1", "2", "3", "4", "5", "6", "7", "8", "9"}

DigitValue(c) ==
    CASE c = "0" -> 0 [] c = "1" -> 1 [] c = "2" -> 2 [] c = "3" -> 3 [] c = "4" -> 4
      [] c = "5" -> 5 [] c = "6" -> 6 [] c = "7" -> 7 [] c = "8" -> 8 [] c = "9" -> 9

RECURSIVE Dec(_)
\* The number a text of decimal digits denotes.
Dec(chars) ==
    IF chars = <<>> THEN 0
    ELSE 10 * Dec(SubSeq(chars, 1, Len(chars) - 1)) + DigitValue(chars[Len(chars)])

RECURSIVE Pow(_, _)
Pow(b, e) == IF e = 0 THEN 1 ELSE b * Pow(b, e - 1)

U64Max == Pow(2, SecBits) - 1

I64Min == -Pow(2, SecBits - 1)

\* `n as i64` of a u64: the same bits read as two's complement.
AsI64(n) == IF n >= Pow(2, SecBits - 1) THEN n - Pow(2, SecBits) ELSE n

\* The builds of the program: with overflow checks, where an arithmetic
\* overflow panics, and without, where it wraps.
Builds == {"overflow-checks", "wrapping"}

RECURSIVE DigitsEnd(_, _)
\* Lexer::take_while(|c| c >= '0' && c <= '9'): the position after the
\* digits that start at pos.
DigitsEnd(s, pos) ==
    IF pos <= Len(s) /\ s[pos] \in Digits THEN DigitsEnd(s, pos + 1) ELSE pos

\* next_dec of merge_wk_duration: (0, 0) when no digit follows, the number
\* and its count of digits, or an error when str::parse::<u64> refuses it.
\* The seconds are read at the width SecBits stands for.  The fraction is
\* read at the full width of u64, which holds every text of up to nine
\* digits; of a longer one only the count of digits is used, for which
\* merge_wk_duration returns the same error as for one that parse refuses.
next_dec(s, pos, scaled) ==
    LET e == DigitsEnd(s, pos)
        text == SubSeq(s, pos, e - 1)
    IN  IF Len(text) = 0 THEN [ok |-> TRUE, n |-> 0, len |-> 0, pos |-> pos]
        ELSE IF ~scaled
             THEN [ok |-> TRUE, n |-> IF Len(text) <= 9 THEN Dec(text) ELSE 0,
                   len |-> Len(text), pos |-> e]
        ELSE IF Len(text) > 9 \/ Dec(text) > U64Max
             THEN [ok |-> FALSE, n |-> 0, len |-> 0, pos |-> e]
        ELSE [ok |-> TRUE, n |-> Dec(text), len |-> Len(text), pos |-> e]

\* Lexer::next_char_if_eq
next_char_if_eq(s, pos, c) == pos <= Len(s) /\ s[pos] = c

\* The loop `while b != 9 { b += 1; a *= 10; }`
PadNanos(a, b) == a * Pow(10, 9 - b)

\* -(seconds as i64): the negation of the least i64 overflows, which panics
\* in a build with overflow checks and wraps in one without.
NegateI64(x, build) ==
    IF x = I64Min
    THEN IF build = "overflow-checks" THEN [ok |-> FALSE, v |-> x] ELSE [ok |-> TRUE, v |-> x]
    ELSE [ok |-> TRUE, v |-> -x]

\* Parser::merge_wk_duration on the characters of the string literal.
merge_wk_duration_text(duration, s, build) ==
    LET minus == next_char_if_eq(s, 1, "-")
        p0 == IF minus THEN 2 ELSE 1
        sec == next_dec(s, p0, TRUE)
    IN  IF ~sec.ok \/ sec.len = 0 THEN JErr("IncorrectDuration", duration, 1)
        ELSE
        LET dot == next_char_if_eq(s, sec.pos, ".")
            frac == IF dot THEN next_dec(s, sec.pos + 1, FALSE)
                    ELSE [ok |-> TRUE, n |-> 0, len |-> 9, pos |-> sec.pos]
        IN  IF ~frac.ok THEN JErr("IncorrectDuration", duration, 1)
            ELSE IF frac.len > 9 THEN JErr("IncorrectDuration", duration, 1)
            ELSE IF PadNanos(frac.n, frac.len) > 999999999
                 THEN JErr("IncorrectDuration", duration, 1)
            ELSE IF ~next_char_if_eq(s, frac.pos, "s")
                 THEN JErr("IncorrectDuration", duration, 1)
            ELSE IF frac.pos + 1 <= Len(s) THEN JErr("IncorrectDuration", duration, 1)
            ELSE LET nanos == PadNanos(frac.n, frac.len) IN
                 IF minus
                 THEN LET neg == NegateI64(AsI64(sec.n), build) IN
                      IF ~neg.ok THEN JAbort(duration, 1)
                      ELSE JOk([duration EXCEPT !.seconds = neg.v, !.nanos = -nanos], 2)
                 ELSE JOk([duration EXCEPT !.seconds = AsI64(sec.n), !.nanos = nanos], 2)

\* merge_wk_duration: read_string, then the text of the literal.
merge_wk_duration(duration, toks, pos, build) ==
    IF pos > Len(toks) \/ toks[pos].k # "str"
    THEN JErr("UnexpectedToken", duration, pos)
    ELSE LET r == merge_wk_duration_text(duration, toks[pos].v, build) IN
         [r EXCEPT !.pos = pos + 1]

Duration_new == [desc |-> "Duration", backing |-> "generated", seconds |-> 0, nanos |-> 0]

\* MessageDescriptor::new_instance of the two types JSON is parsed into.
Json_new(b, d) == IF d = "Duration" THEN Duration_new ELSE new_instance(b, d)

Ident(name) == [k |-> "ident", v |-> <<name>>]

next_symbol_is(toks, pos, c) == pos <= Len(toks) /\ toks[pos] = Sym(c)

next_ident_is(toks, pos, name) == pos <= Len(toks) /\ toks[pos] = Ident(name)

lookahead_is(toks, pos, kind) == pos <= Len(toks) /\ toks[pos].k = kind

ReadOk(box, pos) == [ok |-> TRUE, error |-> "", box |-> box, pos |-> pos]

ReadErr(error, pos) == [ok |-> FALSE, error |-> error, box |-> Box("None", 0), pos |-> pos]

\* FromJsonNumber::from_string for the integer types, str::parse: an
\* optional sign, which the unsigned types take only as `+`, then digits.
\* Every number of the inputs has at most nine digits, which each of the
\* types holds.
from_string(chars, t) ==
    LET signed == Len(chars) > 0 /\ chars[1] \in {"-", "+"}
        digits == IF signed THEN Tail(chars) ELSE chars
        minus == signed /\ chars[1] = "-"
    IN  IF \/ digits = <<>>
           \/ \E i \in 1..Len(digits) : digits[i] \notin Digits
           \/ Len(digits) > 9
           \/ minus /\ t \in {"U32", "U64"}
        THEN OptNone
        ELSE OptSome(IF minus THEN -Dec(digits) ELSE Dec(digits))

\* Parser::read_number: a number token, or a string literal that holds the
\* text of a number.
read_number(toks, pos, t) ==
    IF lookahead_is(toks, pos, "num") \/ lookahead_is(toks, pos, "str")
    THEN LET n == from_string(toks[pos].v, t) IN
         IF IsSome(n) THEN ReadOk(Box(t, Unwrap(n)), pos + 1)
         ELSE ReadErr("ParseIntError", pos + 1)
    ELSE ReadErr("ExpectingNumber", pos)

\* Parser::read_string: the characters of a string literal.
read_string(toks, pos) ==
    IF lookahead_is(toks, pos, "str") THEN ReadOk(Box("String", toks[pos].v), pos + 1)
    ELSE ReadErr("TokenizerError", pos)

\* Parser::read_bool
read_bool(toks, pos) ==
    IF next_ident_is(toks, pos, "true") THEN ReadOk(Box("Bool", TRUE), pos + 1)
    ELSE IF next_ident_is(toks, pos, "false") THEN ReadOk(Box("Bool", FALSE), pos + 1)
    ELSE ReadErr("ExpectingBool", pos)

\* Parser::read_value for the types of the fields of the schema.
read_value(toks, pos, t) ==
    CASE t \in {"I32", "I64", "U32", "U64"} -> read_number(toks, pos, t)
      [] t = "Bool" -> read_bool(toks, pos)
      [] t = "String" -> read_string(toks, pos)

\* Parser::parse_key: the key of a map entry, from the text of its name.
parse_key(chars, t) ==
    CASE t \in {"I32", "I64", "U32", "U64"} ->
           LET n == from_string(chars, t) IN
           IF IsSome(n) THEN ReadOk(Box(t, Unwrap(n)), 0) ELSE ReadErr("ParseIntError", 0)
      [] t = "Bool" ->
           IF chars = <<"true">> THEN ReadOk(Box("Bool", TRUE), 0)
           ELSE IF chars = <<"false">> THEN ReadOk(Box("Bool", FALSE), 0)
           ELSE ReadErr("ExpectingBool", 0)
      [] t = "String" -> ReadOk(Box("String", chars), 0)
      [] OTHER -> ReadErr("abort", 0)

\* The closures handed to read_list and read_map: the one of
\* skip_json_value, which reads a value and drops it, and the ones of
\* merge_repeated_field and merge_map_field, which read a value of the
\* field's type and push or insert it.
SkipItem == [do |-> "skip"]

PushItem(f) == [do |-> "push", f |-> f]

InsertItem(f) == [do |-> "insert", f |-> f]

\* A skip that takes one token for the value, whatever the value is.
skip_json_value_one_token(toks, pos) ==
    IF pos <= Len(toks) THEN JOk(<<>>, pos + 1) ELSE JErr("UnexpectedToken", <<>>, pos)

RECURSIVE skip_json_value(_, _)
RECURSIVE ReadItems(_, _, _, _, _)
RECURSIVE ReadEntries(_, _, _, _, _)

\* The closure of merge_repeated_field on the value that was read.
PushRead(acc, f, v) ==
    IF v.ok THEN JOk(mut_repeated_push(acc, f, v.box), v.pos)
    ELSE JErr(v.error, acc, v.pos)

\* The item closure of read_list applied at pos; acc is the message the
\* closure has captured (nothing for a skip).
read_item(item, acc, toks, pos) ==
    IF item.do = "skip"
    THEN skip_json_value(toks, pos)
    ELSE PushRead(acc, item.f, read_value(toks, pos, ElemType(item.f)))

\* The loop of read_list after an item: its error ends the loop.
ReadItemsAfter(item, r, toks) ==
    IF r.status # "Ok" THEN r
    ELSE ReadItems(item, r.msg, toks, r.pos, FALSE)

\* The loop `while !self.tokenizer.next_symbol_if_eq(']')?` of read_list.
ReadItems(item, acc, toks, pos, first) ==
    IF pos > Len(toks) THEN JErr("UnexpectedEof", acc, pos)
    ELSE IF next_symbol_is(toks, pos, "]") THEN JOk(acc, pos + 1)
    ELSE IF ~first /\ ~next_symbol_is(toks, pos, ",") THEN JErr("ExpectChar", acc, pos)
    ELSE ReadItemsAfter(item, read_item(item, acc, toks, IF first THEN pos ELSE pos + 1), toks)

\* Parser::read_list: null is the empty list.
read_list(item, acc, toks, pos) ==
    IF next_ident_is(toks, pos, "null") THEN JOk(acc, pos + 1)
    ELSE IF ~next_symbol_is(toks, pos, "[") THEN JErr("ExpectChar", acc, pos)
    ELSE ReadItems(item, acc, toks, pos + 1, TRUE)

\* The loop of read_map after a skipped value.
ReadEntriesAfter(item, acc, r, toks) ==
    IF r.status # "Ok" THEN r
    ELSE ReadEntries(item, acc, toks, r.pos, FALSE)

\* The closure of merge_map_field on the key and the value that was read.
InsertRead(item, acc, toks, k, v) ==
    IF ~v.ok THEN JErr(v.error, acc, v.pos)
    ELSE ReadEntries(item, mut_map_insert(acc, item.f, k.box, v.box), toks, v.pos, FALSE)

\* An entry of read_map from its key k on: the colon, then
\* read_value_and_insert.
ReadEntryValue(item, acc, toks, p1, k) ==
    IF ~k.ok /\ k.error = "abort" THEN JAbort(acc, p1)
    ELSE IF ~k.ok THEN JErr(k.error, acc, p1)
    ELSE IF ~next_symbol_is(toks, p1 + 1, ":") THEN JErr("ExpectChar", acc, p1 + 1)
    ELSE IF item.do = "skip"
    THEN ReadEntriesAfter(item, acc, skip_json_value(toks, p1 + 2), toks)
    ELSE InsertRead(item, acc, toks, k, read_value(toks, p1 + 2, ElemType(item.f)))

\* An entry of read_map from the string ks of its key on: parse_key.
ReadEntryKey(item, acc, toks, p1, ks) ==
    IF ~ks.ok THEN JErr(ks.error, acc, p1)
    ELSE ReadEntryValue(item, acc, toks, p1,
                        IF item.do = "skip" THEN ReadOk(Box("None", 0), 0)
                        ELSE parse_key(ks.box.v, KeyType(item.f)))

\* An entry of read_map: its key is read as a string.
ReadEntry(item, acc, toks, p1) == ReadEntryKey(item, acc, toks, p1, read_string(toks, p1))

\* The loop of read_map: the key as a string, parse_key, the colon, then
\* read_value_and_insert.
ReadEntries(item, acc, toks, pos, first) ==
    IF pos > Len(toks) THEN JErr("UnexpectedEof", acc, pos)
    ELSE IF next_symbol_is(toks, pos, "}") THEN JOk(acc, pos + 1)
    ELSE IF ~first /\ ~next_symbol_is(toks, pos, ",") THEN JErr("ExpectChar", acc, pos)
    ELSE ReadEntry(item, acc, toks, IF first THEN pos ELSE pos + 1)

\* Parser::read_map: null is the empty map.
read_map(item, acc, toks, pos) ==
    IF next_ident_is(toks, pos, "null") THEN JOk(acc, pos + 1)
    ELSE IF ~next_symbol_is(toks, pos, "{") THEN JErr("ExpectChar", acc, pos)
    ELSE ReadEntries(item, acc, toks, pos + 1, TRUE)

\* Parser::skip_json_value: a literal, a string, a number, a list or an
\* object, each read to its end.
skip_json_value(toks, pos) ==
    IF \E w \in {"true", "false", "null"} : next_ident_is(toks, pos, w)
    THEN JOk(<<>>, pos + 1)
    ELSE IF lookahead_is(toks, pos, "str") THEN JOk(<<>>, pos + 1)
    ELSE IF lookahead_is(toks, pos, "num") THEN JOk(<<>>, pos + 1)
    ELSE IF next_symbol_is(toks, pos, "[") THEN read_list(SkipItem, <<>>, toks, pos)
    ELSE IF next_symbol_is(toks, pos, "{") THEN read_map(SkipItem, <<>>, toks, pos)
    ELSE JErr("UnexpectedToken", <<>>, pos)

\* A merge into a repeated field that keeps what the field holds.
merge_repeated_field_keep(msg, f, toks, pos) == read_list(PushItem(f), msg, toks, pos)

\* Parser::merge_repeated_field
merge_repeated_field(msg, f, toks, pos) ==
    read_list(PushItem(f), mut_repeated_clear(msg, f), toks, pos)

\* A merge into a map field that keeps what the field holds.
merge_map_field_keep(msg, f, toks, pos) == read_map(InsertItem(f), msg, toks, pos)

\* Parser::merge_map_field
merge_map_field(msg, f, toks, pos) ==
    read_map(InsertItem(f), mut_map_clear(msg, f), toks, pos)

\* merge_singular_field on the value that was read.
MergeRead(msg, f, v) ==
    IF v.ok THEN JOk(merge_singular_field(msg, f, v.box), v.pos)
    ELSE JErr(v.error, msg, v.pos)

\* Parser::merge_singular_field with the value it reads.
merge_singular_field_at(msg, f, toks, pos) ==
    MergeRead(msg, f, read_value(toks, pos, ElemType(f)))

\* Parser::merge_field: by the runtime field type.
merge_field(msg, f, toks, pos) ==
    CASE FieldProto(f).label = "singular" -> merge_singular_field_at(msg, f, toks, pos)
      [] FieldProto(f).label = "repeated" -> merge_repeated_field(msg, f, toks, pos)
      [] FieldProto(f).label = "map" -> merge_map_field(msg, f, toks, pos)

\* The lowerCamelCase JSON name of a field of the schema.
json_name(n) ==
    CASE n = "item_list" -> "itemList"
      [] n = "by_key" -> "byKey"
      [] OTHER -> n

\* The declarations the MessageIndex of a descriptor is built from.
IndexDecls(d) ==
    [i \in 1..Len(FieldProtos(d)) |->
        [name |-> FieldProtos(d)[i].name,
         json_name |-> json_name(FieldProtos(d)[i].name),
         number |-> FieldProtos(d)[i].number]]

\* A lookup by the proto name alone.
JsonFieldByProtoName(d, chars) ==
    LET map == MessageIndex_index(IndexDecls(d)).index_by_name IN
    IF Len(chars) = 1 /\ chars[1] \in DOMAIN map
    THEN OptSome(FieldDescriptor(d, map[chars[1]]))
    ELSE OptNone

\* get_field_by_name_or_json_name of the message's descriptor; the name of
\* a member is the one unit of its string literal.
JsonFieldByName(d, chars) ==
    LET map == MessageIndex_index(IndexDecls(d)).index_by_name_or_json_name IN
    IF Len(chars) = 1 /\ chars[1] \in DOMAIN map
    THEN OptSome(FieldDescriptor(d, map[chars[1]]))
    ELSE OptNone

RECURSIVE MergeMembers(_, _, _, _, _)

\* The loop of merge_inner after a member of a field: its error ends the
\* loop.
MergeMembersAfter(r, toks, opts) ==
    IF r.status # "Ok" THEN r
    ELSE MergeMembers(r.msg, toks, r.pos, FALSE, opts)

\* The loop of merge_inner after a member that was skipped.
MergeMembersSkipped(msg, sk, toks, opts) ==
    IF sk.status # "Ok" THEN JErr(sk.error, msg, sk.pos)
    ELSE MergeMembers(msg, toks, sk.pos, FALSE, opts)

\* A member of merge_inner from the lookup of its name on.
MergeFound(msg, toks, p1, opts, field) ==
    IF IsSome(field)
    THEN IF ~next_symbol_is(toks, p1 + 1, ":") THEN JErr("ExpectChar", msg, p1 + 1)
         ELSE MergeMembersAfter(merge_field(msg, Unwrap(field), toks, p1 + 2), toks, opts)
    ELSE IF opts.ignore_unknown_fields
    THEN IF ~next_symbol_is(toks, p1 + 1, ":") THEN JErr("ExpectChar", msg, p1 + 1)
         ELSE MergeMembersSkipped(msg, skip_json_value(toks, p1 + 2), toks, opts)
    ELSE JErr("UnknownFieldName", msg, p1)

\* A member of merge_inner from the string of its name on.
MergeNamed(msg, toks, p1, opts, field_name) ==
    IF ~field_name.ok THEN JErr(field_name.error, msg, p1)
    ELSE MergeFound(msg, toks, p1, opts, JsonFieldByName(msg.desc, field_name.box.v))

\* A member of merge_inner: its name is read as a string.
MergeMember(msg, toks, p1, opts) == MergeNamed(msg, toks, p1, opts, read_string(toks, p1))

\* The loop `while !self.tokenizer.next_symbol_if_eq('}')?` of merge_inner.
MergeMembers(msg, toks, pos, first, opts) ==
    IF pos > Len(toks) THEN JErr("UnexpectedEof", msg, pos)
    ELSE IF next_symbol_is(toks, pos, "}") THEN JOk(msg, pos + 1)
    ELSE IF ~first /\ ~next_symbol_is(toks, pos, ",") THEN JErr("ExpectChar", msg, pos)
    ELSE MergeMember(msg, toks, IF first THEN pos ELSE pos + 1, opts)

\* Parser::merge_inner: a well-known type by its own reader, any other
\* message member by member.
merge_inner(msg, toks, opts, build) ==
    IF msg.desc = "Duration" THEN merge_wk_duration(msg, toks, 1, build)
    ELSE IF ~next_symbol_is(toks, 1, "{") THEN JErr("ExpectChar", msg, 1)
    ELSE MergeMembers(msg, toks, 2, TRUE, opts)

\* json::merge_from_str_with_options: Parser::merge adds the location to
\* the error of merge_inner.
merge_from_str_with_options(msg, toks, opts, build) == merge_inner(msg, toks, opts, build)

ParseOptions_default == [ignore_unknown_fields |-> FALSE]

\* json::merge_from_str
merge_from_str(msg, toks, build) ==
    merge_from_str_with_options(msg, toks, ParseOptions_default, build)


(***************************************************************************)
(* Initialization.  Three generated message types:                         *)
(*   Sub   { required int32 x = 1; }                                       *)
(*   Outer { required int32 id = 1; optional Sub child = 2;                *)
(*           repeated Sub kids = 3; map<int32, Sub> byk = 4; }             *)
(*   Plain { optional int32 n = 1; }                                       *)
(* each generated with or without the LITE_RUNTIME option, and the         *)
(* well-known type Duration { int64 seconds = 1; int32 nanos = 2; }.  The  *)
(* fields as                                                               *)
(* the code generator sees them (FieldGen): kind, required flag and        *)
(* proto type.                                                             *)
(***************************************************************************)
FieldGens(d) ==
    CASE d = "Sub" ->
           << [name |-> "x", number |-> 1, kind |-> "Singular", required |-> TRUE,
               proto_type |-> "TYPE_INT32"] >>
      [] d = "Outer" ->
           << [name |-> "id", number |-> 1, kind |-> "Singular", required |-> TRUE,
               proto_type |-> "TYPE_INT32"],
              [name |-> "child", number |-> 2, kind |-> "Singular", required |-> FALSE,
               proto_type |-> "TYPE_MESSAGE"],
              [name |-> "kids", number |-> 3, kind |-> "Repeated", required |-> FALSE,
               proto_type |-> "TYPE_MESSAGE"],
              [name |-> "byk", number |-> 4, kind |-> "Map", required |-> FALSE,
               proto_type |-> "TYPE_MESSAGE"] >>
      [] d = "Plain" ->
           << [name |-> "n", number |-> 1, kind |-> "Singular", required |-> FALSE,
               proto_type |-> "TYPE_INT32"] >>
      [] d = "Duration" ->
           << [name |-> "seconds", number |-> 1, kind |-> "Singular", required |-> FALSE,
               proto_type |-> "TYPE_INT64"],
              [name |-> "nanos", number |-> 2, kind |-> "Singular", required |-> FALSE,
               proto_type |-> "TYPE_INT32"] >>

\* MessageGen::required_fields
required_fields(d) ==
    SelectSeq(FieldGens(d), LAMBDA f : f.kind = "Singular" /\ f.required)

\* MessageGen::message_fields
message_fields(d) == SelectSeq(FieldGens(d), LAMBDA f : f.proto_type = "TYPE_MESSAGE")

\* The generated new() of Outer and of Plain.
Other_new(d) ==
    [desc |-> d,
     backing |-> "generated",
     fields |-> [n \in {FieldGens(d)[i].name : i \in 1..Len(FieldGens(d))} |-> <<>>],
     oneofs |-> <<>>,
     unknown_fields |-> <<>>,
     cached_size |-> 0]

Req_new(d) == IF d = "Sub" THEN Generated_new("Sub") ELSE Other_new(d)

\* write_for_self_field: the values a message field holds, one for a set
\* singular field, the elements of a repeated field.
SelfFieldValues(msg, f) == msg.fields[f.name]

RECURSIVE is_initialized(_)
\* The generated is_initialized (MessageGen::write_is_initialized): false
\* when a required field is none; then, for every message field that is
\* not a map, false when a message it holds is not initialized; else true.
is_initialized(msg) ==
    LET req == required_fields(msg.desc)
        mf == message_fields(msg.desc)
    IN  /\ \A i \in 1..Len(req) : msg.fields[req[i].name] # <<>>
        /\ \A i \in 1..Len(mf) :
               \/ mf[i].kind = "Map"
               \/ \A j \in 1..Len(SelfFieldValues(msg, mf[i])) :
                      is_initialized(SelfFieldValues(msg, mf[i])[j])

RECURSIVE AllRequiredInitialized(_)
\* Every required field of the message is set and every message it holds
\* in a singular, repeated or map field is itself so.
AllRequiredInitialized(msg) ==
    LET fs == FieldGens(msg.desc) IN
    \A i \in 1..Len(fs) :
        /\ fs[i].required => msg.fields[fs[i].name] # <<>>
        /\ fs[i].proto_type = "TYPE_MESSAGE" =>
               \A j \in 1..Len(msg.fields[fs[i].name]) :
                   AllRequiredInitialized(
                       IF fs[i].kind = "Map"
                       THEN msg.fields[fs[i].name][j][2]
                       ELSE msg.fields[fs[i].name][j])

\* Message::descriptor_static: the generated override exists unless the
\* type is generated for the lite runtime, and the default panics.
descriptor_static(t) == IF t.lite_runtime THEN "abort" ELSE "descriptor"

\* Message::descriptor_by_instance
descriptor_by_instance(t) == descriptor_static(t)

ROk == [status |-> "Ok", error |-> ""]

RErr(e) == [status |-> "Err", error |-> e]

RAbort == [status |-> "abort", error |-> ""]

\* Message::check_initialized
check_initialized(t) ==
    IF ~is_initialized(t.msg)
    THEN IF descriptor_by_instance(t) = "abort" THEN RAbort
         ELSE RErr("MessageNotInitialized")
    ELSE ROk

RECURSIVE EncodeSubs(_, _)
\* One length-delimited field per message of a repeated field.
EncodeSubs(number, subs) ==
    IF subs = <<>> THEN <<>>
    ELSE Tag(number, "LengthDelimited")
           \o Varint(Len(write_to_with_cached_sizes(Head(subs))))
           \o write_to_with_cached_sizes(Head(subs))
           \o EncodeSubs(number, Tail(subs))

\* One map entry: the key as field 1 and the value as field 2 of an entry
\* message.
EncodeEntry(kv) ==
    Tag(1, "Varint") \o Varint(kv[1]) \o EncodeSubs(2, <<kv[2]>>)

RECURSIVE EncodeEntries(_, _)
EncodeEntries(number, map) ==
    IF map = <<>> THEN <<>>
    ELSE Tag(number, "LengthDelimited") \o Varint(Len(EncodeEntry(Head(map))))
           \o EncodeEntry(Head(map)) \o EncodeEntries(number, Tail(map))

RECURSIVE EncodeFrom(_, _)
\* write_to_with_cached_sizes of Outer and Plain: the fields in
\* declaration order.
EncodeFrom(msg, i) ==
    IF i > Len(FieldGens(msg.desc)) THEN <<>>
    ELSE LET f == FieldGens(msg.desc)[i]
             v == msg.fields[f.name]
         IN  (CASE f.proto_type = "TYPE_INT32" ->
                     IF v = <<>> THEN <<>> ELSE Tag(f.number, "Varint") \o Varint(v[1])
                [] f.kind = "Map" -> EncodeEntries(f.number, v)
                [] OTHER -> EncodeSubs(f.number, v))
             \o EncodeFrom(msg, i + 1)

Req_write_to_with_cached_sizes(msg) ==
    IF msg.desc = "Sub" THEN write_to_with_cached_sizes(msg)
    ELSE EncodeFrom(msg, 1) \o write_unknown_fields(msg.unknown_fields)

\* What a writing operation leaves: its result, the message, the bytes in
\* the output and whether compute_size ran.
Written(res, msg, bytes, sized) ==
    [res |-> res, msg |-> msg, written |-> bytes, sized |-> sized]

\* Message::write_to: check_initialized()?, compute_size(),
\* write_to_with_cached_sizes(os)?.
write_to(t) ==
    LET c == check_initialized(t) IN
    IF c.status # "Ok" THEN Written(c, t.msg, <<>>, FALSE)
    ELSE Written(ROk,
                 [t.msg EXCEPT !.cached_size = Len(Req_write_to_with_cached_sizes(t.msg))],
                 Req_write_to_with_cached_sizes(t.msg), TRUE)

\* Message::write_to_bytes: check_initialized()?, compute_size(), a vector
\* of that size, write_to_with_cached_sizes into it.
write_to_bytes(t) ==
    LET c == check_initialized(t) IN
    IF c.status # "Ok" THEN Written(c, t.msg, <<>>, FALSE)
    ELSE Written(ROk,
                 [t.msg EXCEPT !.cached_size = Len(Req_write_to_with_cached_sizes(t.msg))],
                 Req_write_to_with_cached_sizes(t.msg), TRUE)

\* Message::parse_from, for Sub: new(), merge_from(is)?, check_initialized()?.
parse_from(lite, bytes) ==
    LET r == merge_from(Generated_new("Sub"), bytes)
        c == check_initialized([lite_runtime |-> lite, msg |-> r])
    IN  Written(c, r, <<>>, FALSE)

\* The end of parse_dynamic_from_str_with_options, r being what the merge
\* returned.
CheckMerged(r) ==
    IF r.status # "Ok" THEN Written([status |-> r.status, error |-> r.error], r.msg, <<>>, FALSE)
    ELSE IF ~is_initialized(r.msg)
         THEN Written(RErr("MessageNotInitialized"), r.msg, <<>>, FALSE)
         ELSE Written(ROk, r.msg, <<>>, FALSE)

\* json::parse_dynamic_from_str_with_options: new_instance(), the merge,
\* then check_initialized_dyn, whose error becomes a ParseError.
parse_dynamic_from_str_with_options(d, toks, opts, build) ==
    CheckMerged(merge_from_str_with_options(Json_new("generated", d), toks, opts, build))

ReqTypes == {"Sub", "Outer", "Plain"}

ReqSubs == SubValues("generated")

\* JSON texts for Sub, as tokens.
JsonTexts ==
    { <<>>,
      <<Sym("{")>>,
      <<Sym("{"), Sym("}")>>,
      <<Num(<<"7">>)>>,
      <<Sym("{"), StrLit(<<"x">>), Sym(":"), Num(<<"7">>), Sym("}")>>,
      <<Sym("{"), StrLit(<<"x">>), Sym(":"), Sym("}")>>,
      <<Sym("{"), StrLit(<<"x">>), Sym(":"), StrLit(<<"s">>), Sym("}")>>,
      <<Sym("{"), StrLit(<<"y">>), Sym(":"), Num(<<"7">>), Sym("}")>>,
      <<Sym("{"), StrLit(<<"y">>), Sym(":"), Num(<<"7">>), Sym(","),
        StrLit(<<"x">>), Sym(":"), Num(<<"3", "0", "0">>), Sym("}")>>,
      <<Sym("{"), StrLit(<<"x">>), Sym(":"), Num(<<"7">>), Sym(","),
        StrLit(<<"x">>), Sym(":"), Num(<<"3", "0", "0">>), Sym("}")>>,
      <<Sym("{"), StrLit(<<"x">>), Sym(":"), Num(<<"7">>), StrLit(<<"x">>)>> }

NoCheck ==
    [op |-> "none", status |-> "none", error |-> "", written |-> <<>>, sized |-> FALSE,
     checked |-> FALSE, init |-> TRUE, before |-> 0]

\* The record of an operation that checked the initialization of `msg`.
Checked(op, w, msg) ==
    [op |-> op, status |-> w.res.status, error |-> w.res.error, written |-> w.written,
     sized |-> w.sized, checked |-> TRUE, init |-> is_initialized(msg),
     before |-> msg.cached_size]

ReqInit ==
    /\ \E d \in ReqTypes, lite \in BOOLEAN : im = [lite_runtime |-> lite, msg |-> Req_new(d)]
    /\ ir = NoCheck
    /\ AccIdle /\ IdxIdle /\ EqIdle /\ LazyIdle /\ WireIdle /\ EntIdle /\ JsonIdle /\ CmpIdle /\ ModIdle /\ WrIdle

\* The setter of the scalar field of the message.
RSetScalar ==
    /\ LET f == FieldGens(im.msg.desc)[1] IN
       im' = [im EXCEPT !.msg.fields[f.name] = <<7>>]
    /\ UNCHANGED ir
    /\ ReqFrame

\* Clear::clear
RClear ==
    /\ im' = [im EXCEPT !.msg = [Req_new(im.msg.desc) EXCEPT !.cached_size = im.msg.cached_size]]
    /\ UNCHANGED ir
    /\ ReqFrame

RSetChild ==
    /\ \E s \in ReqSubs :
           /\ im.msg.desc = "Outer"
           /\ im' = [im EXCEPT !.msg.fields.child = <<s>>]
           /\ UNCHANGED ir
    /\ ReqFrame

RPushKid ==
    /\ \E s \in ReqSubs :
           /\ im.msg.desc = "Outer"
           /\ Len(im.msg.fields.kids) < MaxLen
           /\ im' = [im EXCEPT !.msg.fields.kids = Append(@, s)]
           /\ UNCHANGED ir
    /\ ReqFrame

RInsert ==
    /\ \E s \in ReqSubs :
           /\ im.msg.desc = "Outer"
           /\ im' = [im EXCEPT !.msg.fields.byk = HashMap_insert(@, 1, s)]
           /\ UNCHANGED ir
    /\ ReqFrame

RCheckInitialized ==
    /\ ir' = Checked("check_initialized",
                     Written(check_initialized(im), im.msg, <<>>, FALSE), im.msg)
    /\ UNCHANGED im
    /\ ReqFrame

\* The message and the record after a write that left w.
Wrote(op, w) ==
    /\ ir' = Checked(op, w, im.msg)
    /\ im' = [im EXCEPT !.msg = w.msg]

\* The message and the record after a parse that left w: the message
\* parsed is kept when the parse succeeded.
Parsed(op, w) ==
    /\ ir' = [Checked(op, w, w.msg) EXCEPT
                 !.checked = op = "parse_from" \/ w.res.error \in {"", "MessageNotInitialized"}]
    /\ im' = IF w.res.status = "Ok" THEN [im EXCEPT !.msg = w.msg] ELSE im

RWriteTo ==
    /\ Wrote("write_to", write_to(im))
    /\ ReqFrame

RWriteToBytes ==
    /\ Wrote("write_to_bytes", write_to_bytes(im))
    /\ ReqFrame

RParseFrom ==
    /\ \E bytes \in Streams :
           /\ im.msg.desc = "Sub"
           /\ Parsed("parse_from", parse_from(im.lite_runtime, bytes))
    /\ ReqFrame

RParseDynamicFromStr ==
    /\ \E toks \in JsonTexts, ignore \in BOOLEAN, build \in Builds :
           /\ im.msg.desc = "Sub"
           /\ ~im.lite_runtime
           /\ Parsed("parse_dynamic_from_str_with_options",
                     parse_dynamic_from_str_with_options(
                         "Sub", toks, [ignore_unknown_fields |-> ignore], build))
    /\ ReqFrame

ReqNext ==
    \/ RSetScalar \/ RClear \/ RSetChild \/ RPushKid \/ RInsert
    \/ RCheckInitialized \/ RWriteTo \/ RWriteToBytes \/ RParseFrom \/ RParseDynamicFromStr

SpecRequired == ReqInit /\ [][ReqNext]_vars

(***************************************************************************)
(* C18.  NotInitialized is a recoverable result: whenever initialization   *)
(* is checked (check_initialized, write_to, write_to_bytes, parse_from,    *)
(* parse_dynamic_from_str_with_options) on a message for which             *)
(* is_initialized() is false, the operation returns the error              *)
(* MessageNotInitialized and never aborts; write_to and write_to_bytes     *)
(* return it before computing sizes or writing a byte.                     *)
(***************************************************************************)
C18_NotInitializedIsAnError ==
    /\ ~is_initialized(im.msg) => check_initialized(im) = RErr("MessageNotInitialized")
    /\ (ir.checked /\ ~ir.init) =>
           /\ ir.status = "Err"
           /\ ir.error = "MessageNotInitialized"
           /\ ir.written = <<>>
           /\ ~ir.sized

\* For a type generated with the descriptor, the check of a message that is
\* not initialized returns the error, with nothing written or sized, and
\* the check of one that is initialized succeeds.
FullRuntimeChecks ==
    /\ ~im.lite_runtime =>
           /\ check_initialized(im) =
                  IF is_initialized(im.msg) THEN ROk ELSE RErr("MessageNotInitialized")
           /\ ~is_initialized(im.msg) =>
                  /\ write_to(im) = Written(RErr("MessageNotInitialized"), im.msg, <<>>, FALSE)
                  /\ write_to_bytes(im) = write_to(im)
    /\ (ir.checked /\ ~ir.init /\ ir.status = "Err") =>
           /\ ir.error = "MessageNotInitialized"
           /\ ir.written = <<>>
           /\ ~ir.sized
    /\ (ir.checked /\ ir.init) => ir.status = "Ok"

(***************************************************************************)
(* C19.  is_initialized() returns true if and only if all required fields  *)
(* are initialized: every required field of the message is set and every   *)
(* message it holds in a message-typed field, singular, repeated or map,   *)
(* is itself initialized; it is always true for a message with no          *)
(* required field anywhere.                                                *)
(***************************************************************************)
C19_IsInitializedIff ==
    /\ is_initialized(im.msg) <=> AllRequiredInitialized(im.msg)
    /\ im.msg.desc = "Plain" => is_initialized(im.msg)

\* Apart from the messages held as map values, is_initialized is as
\* stated.
IsInitializedApartFromMaps ==
    /\ AllRequiredInitialized(im.msg) => is_initialized(im.msg)
    /\ (im.msg.desc = "Outer" /\ \A j \in 1..Len(im.msg.fields.byk) :
                                   AllRequiredInitialized(im.msg.fields.byk[j][2]))
           => (is_initialized(im.msg) <=> AllRequiredInitialized(im.msg))
    /\ im.msg.desc # "Outer" => (is_initialized(im.msg) <=> AllRequiredInitialized(im.msg))


(***************************************************************************)
(* The JSON entry points, given every duration text of up to MaxDurLen     *)
(* characters and JSON texts for Sub, well formed and not.                 *)
(***************************************************************************)
DurAlphabet == {"-", "1", "6", "8", ".", "s"}

\* Duration texts longer than MaxDurLen: nine and ten digits of fraction,
\* a sign with a fraction, and a character after the suffix.
LongDurTexts ==
    { <<"1", ".", "1", "1", "1", "1", "1", "1", "1", "1", "1", "s">>,
      <<"1", ".", "1", "1", "1", "1", "1", "1", "1", "1", "1", "1", "s">>,
      <<"-", "6", ".", "1", "6", "s">>,
      <<"0", ".", "0", "1", "s">>,
      <<"-", "0", ".", "5", "s">>,
      <<"6", ".", "1", "s", "s">> }

DurTexts ==
    {<<StrLit(chars)>> : chars \in SeqsUpTo(DurAlphabet, MaxDurLen) \cup LongDurTexts}

JsonInputs == DurTexts \cup JsonTexts

JsonTargets == {Json_new("generated", "Sub"), Json_new("dynamic", "Sub"), Duration_new}

JsonInit ==
    /\ jm \in JsonTargets
    /\ \E toks \in JsonInputs :
           jr = [text |-> toks, op |-> "none", status |-> "none", error |-> "",
                 build |-> "wrapping", target |-> ""]
    /\ AccIdle /\ IdxIdle /\ EqIdle /\ LazyIdle /\ WireIdle /\ EntIdle /\ ReqIdle /\ CmpIdle /\ ModIdle /\ WrIdle

\* The message and the record after a merge that returned r.
JMerged(op, r, build) ==
    /\ jm' = r.msg
    /\ jr' = [text |-> jr.text, op |-> op, status |-> r.status, error |-> r.error,
              build |-> build, target |-> jm.desc]

\* The message and the record after a parse that left w.
JParsed(op, w, build, d) ==
    /\ jm' = IF w.res.status = "Ok" THEN w.msg ELSE jm
    /\ jr' = [text |-> jr.text, op |-> op, status |-> w.res.status,
              error |-> w.res.error, build |-> build, target |-> d]

JMergeFromStr ==
    /\ \E build \in Builds :
           JMerged("merge_from_str", merge_from_str(jm, jr.text, build), build)
    /\ JsonFrame

JMergeFromStrWithOptions ==
    /\ \E build \in Builds, ignore \in BOOLEAN :
           JMerged("merge_from_str_with_options",
                   merge_from_str_with_options(
                       jm, jr.text, [ignore_unknown_fields |-> ignore], build),
                   build)
    /\ JsonFrame

\* json::parse_dynamic_from_str: the default options.
JParseDynamicFromStr ==
    /\ \E build \in Builds, d \in {"Sub", "Duration"} :
           JParsed("parse_dynamic_from_str",
                   parse_dynamic_from_str_with_options(d, jr.text, ParseOptions_default, build),
                   build, d)
    /\ JsonFrame

\* json::parse_from_str::<M>: parse_dynamic_from_str_with_options of
\* M::descriptor_static(), then the downcast to M.
JParseFromStr ==
    /\ \E build \in Builds, d \in {"Sub", "Duration"} :
           JParsed("parse_from_str",
                   parse_dynamic_from_str_with_options(d, jr.text, ParseOptions_default, build),
                   build, d)
    /\ JsonFrame

JsonNext == JMergeFromStr \/ JMergeFromStrWithOptions \/ JParseDynamicFromStr \/ JParseFromStr

SpecJson == JsonInit /\ [][JsonNext]_vars

(***************************************************************************)
(* C20.  Malformed untrusted input never aborts: for every input text and  *)
(* every target message the JSON entry points (merge_from_str,             *)
(* merge_from_str_with_options, parse_dynamic_from_str, parse_from_str)    *)
(* return success or a ParseError; no text, out-of-range numbers in a      *)
(* duration included, makes them abort.                                    *)
(***************************************************************************)
C20_JsonNeverAborts == jr.status \in {"none", "Ok", "Err"}

\* In a build whose arithmetic wraps no text aborts an entry point, and in
\* no build does a text for a message other than Duration.
JsonAbortsOnlyOnOverflowCheck ==
    jr.status = "abort" => (jr.build = "overflow-checks" /\ jr.target = "Duration")


(***************************************************************************)
(* JSON objects merged into a JMsg.  A member of the input is given with   *)
(* its tokens and with what it denotes: the field it names (f, the index,  *)
(* or -1 when the message has no field of that name), whether its value is *)
(* well formed and of the field's type (good), and the content the field   *)
(* is to hold after it (expect).                                           *)
(***************************************************************************)
Colon == <<Sym(":")>>

I32s(chars) == Box("I32", Dec(chars))

U32s(chars) == Box("U32", Dec(chars))

KnownMembers ==
    { [name |-> "n", sep |-> Colon, value |-> <<Num(<<"7">>)>>, f |-> 0, good |-> TRUE,
       expect |-> OptSome(Box("I32", 7))],
      [name |-> "n", sep |-> Colon, value |-> <<StrLit(<<"-", "3">>)>>, f |-> 0, good |-> TRUE,
       expect |-> OptSome(Box("I32", -3))],
      [name |-> "n", sep |-> Colon, value |-> <<Ident("true")>>, f |-> 0, good |-> FALSE,
       expect |-> <<>>],
      [name |-> "n", sep |-> <<>>, value |-> <<Num(<<"7">>)>>, f |-> 0, good |-> FALSE,
       expect |-> <<>>],
      [name |-> "item_list", sep |-> Colon,
       value |-> <<Sym("["), Num(<<"1">>), Sym(","), Num(<<"2">>), Sym("]")>>,
       f |-> 1, good |-> TRUE, expect |-> <<U32s(<<"1">>), U32s(<<"2">>)>>],
      [name |-> "itemList", sep |-> Colon,
       value |-> <<Sym("["), Num(<<"3">>), Sym("]")>>,
       f |-> 1, good |-> TRUE, expect |-> <<U32s(<<"3">>)>>],
      [name |-> "itemList", sep |-> Colon, value |-> <<Ident("null")>>,
       f |-> 1, good |-> TRUE, expect |-> <<>>],
      [name |-> "item_list", sep |-> Colon,
       value |-> <<Sym("["), Num(<<"1">>), Sym(","), Num(<<"-", "2">>), Sym("]")>>,
       f |-> 1, good |-> FALSE, expect |-> <<>>],
      [name |-> "by_key", sep |-> Colon,
       value |-> <<Sym("{"), StrLit(<<"1">>), Sym(":"), Num(<<"5">>), Sym(","),
                   StrLit(<<"2">>), Sym(":"), Num(<<"6">>), Sym("}")>>,
       f |-> 2, good |-> TRUE,
       expect |-> << <<I32s(<<"1">>), I32s(<<"5">>)>>, <<I32s(<<"2">>), I32s(<<"6">>)>> >>],
      [name |-> "byKey", sep |-> Colon,
       value |-> <<Sym("{"), StrLit(<<"2">>), Sym(":"), Num(<<"9">>), Sym("}")>>,
       f |-> 2, good |-> TRUE, expect |-> << <<I32s(<<"2">>), I32s(<<"9">>)>> >>],
      [name |-> "byKey", sep |-> Colon, value |-> <<Ident("null")>>,
       f |-> 2, good |-> TRUE, expect |-> <<>>],
      [name |-> "by_key", sep |-> Colon,
       value |-> <<Sym("{"), StrLit(<<"1">>), Sym(":"), Num(<<"5">>), Sym(","),
                   StrLit(<<"1">>), Sym(":"), Num(<<"6">>), Sym("}")>>,
       f |-> 2, good |-> TRUE, expect |-> << <<I32s(<<"1">>), I32s(<<"6">>)>> >>],
      [name |-> "by_key", sep |-> Colon,
       value |-> <<Sym("{"), StrLit(<<"a">>), Sym(":"), Num(<<"5">>), Sym("}")>>,
       f |-> 2, good |-> FALSE, expect |-> <<>>] }

UnknownMembers ==
    { [name |-> "zz", sep |-> Colon, value |-> <<Num(<<"7">>)>>, f |-> -1, good |-> TRUE,
       expect |-> <<>>],
      [name |-> "zz", sep |-> Colon, value |-> <<StrLit(<<"s">>)>>, f |-> -1, good |-> TRUE,
       expect |-> <<>>],
      [name |-> "N", sep |-> Colon, value |-> <<Ident("null")>>, f |-> -1, good |-> TRUE,
       expect |-> <<>>],
      [name |-> "ItemList", sep |-> Colon,
       value |-> <<Sym("["), Num(<<"1">>), Sym(","), Sym("["), Num(<<"2">>), Sym("]"),
                   Sym("]")>>,
       f |-> -1, good |-> TRUE, expect |-> <<>>],
      [name |-> "zz", sep |-> Colon,
       value |-> <<Sym("{"), StrLit(<<"n">>), Sym(":"), Sym("{"), StrLit(<<"b">>), Sym(":"),
                   Sym("["), Ident("true"), Sym("]"), Sym("}"), Sym("}")>>,
       f |-> -1, good |-> TRUE, expect |-> <<>>],
      [name |-> "zz", sep |-> Colon, value |-> <<Sym("["), Num(<<"1">>)>>, f |-> -1,
       good |-> FALSE, expect |-> <<>>],
      [name |-> "zz", sep |-> Colon, value |-> <<>>, f |-> -1, good |-> FALSE,
       expect |-> <<>>],
      [name |-> "zz", sep |-> <<>>, value |-> <<Num(<<"7">>)>>, f |-> -1, good |-> FALSE,
       expect |-> <<>>] }

MemberPool == KnownMembers \cup UnknownMembers

RECURSIVE RenderFrom(_, _)
\* The tokens of the members from the i-th on, with the commas between.
RenderFrom(ms, i) ==
    IF i > Len(ms) THEN <<>>
    ELSE (IF i > 1 THEN <<Sym(",")>> ELSE <<>>)
         \o <<StrLit(<<ms[i].name>>)>> \o ms[i].sep \o ms[i].value \o RenderFrom(ms, i + 1)

\* The JSON object of the members, as tokens.
Render(ms) == <<Sym("{")>> \o RenderFrom(ms, 1) \o <<Sym("}")>>

JMsgN == FieldDescriptor("JMsg", 0)

JMsgItemList == FieldDescriptor("JMsg", 1)

JMsgByKey == FieldDescriptor("JMsg", 2)

\* A JMsg with every field holding something: n = 1, item_list = [17],
\* by_key = {3: 4}.
JMsgLoaded(b) ==
    mut_map_insert(
        mut_repeated_push(set_singular_field(new_instance(b, "JMsg"), JMsgN, Box("I32", 1)),
                          JMsgItemList, Box("U32", 17)),
        JMsgByKey, Box("I32", 3), Box("I32", 4))

ObjTargets == {new_instance(b, "JMsg") : b \in Backings} \cup {JMsgLoaded(b) : b \in Backings}

ObjInit ==
    /\ jm \in ObjTargets
    /\ \E ms \in SeqsUpTo(MemberPool, MaxMembers) :
           jr = [text |-> Render(ms), members |-> ms, op |-> "none", ignore |-> FALSE,
                 status |-> "none", error |-> "", before |-> jm]
    /\ AccIdle /\ IdxIdle /\ EqIdle /\ LazyIdle /\ WireIdle /\ EntIdle /\ ReqIdle /\ CmpIdle /\ ModIdle /\ WrIdle

\* The message and the record after a merge that returned r.
ObjMerged(op, r, ignore) ==
    /\ jm' = r.msg
    /\ jr' = [jr EXCEPT !.op = op, !.ignore = ignore,
                        !.status = r.status, !.error = r.error, !.before = jm]

\* json::merge_from_str on the message, which keeps what was merged before
\* an error.
ObjMergeFromStr ==
    /\ \E build \in Builds :
           ObjMerged("merge_from_str", merge_from_str(jm, jr.text, build), FALSE)
    /\ JsonFrame

ObjMergeFromStrWithOptions ==
    /\ \E build \in Builds, ignore \in BOOLEAN :
           ObjMerged("merge_from_str_with_options",
                     merge_from_str_with_options(
                         jm, jr.text, [ignore_unknown_fields |-> ignore], build),
                     ignore)
    /\ JsonFrame

ObjNext == ObjMergeFromStr \/ ObjMergeFromStrWithOptions

SpecJsonObject == ObjInit /\ [][ObjNext]_vars

\* The positions of the members whose name is no field's.
UnknownAt(ms) == {i \in 1..Len(ms) : ms[i].f = -1}

\* The members without those whose name is no field's.
Erase(ms) == SelectSeq(ms, LAMBDA mem : mem.f # -1)

\* The members with each name replaced by the proto name of its field.
ProtoNamed(ms) ==
    [i \in 1..Len(ms) |->
        IF ms[i].f = -1 THEN ms[i]
        ELSE [ms[i] EXCEPT !.name = FieldProtos("JMsg")[ms[i].f + 1].name]]

\* What a field holds, as the reflective getters show it.
Content(msg, f) ==
    CASE FieldProto(f).label = "singular" -> get_singular(msg, f)
      [] FieldProto(f).label = "repeated" -> get_repeated(msg, f)
      [] FieldProto(f).label = "map" -> get_map(msg, f)

\* What the members say the field is to hold: the content of the last
\* member that names it, or what it held before when none does.
Denoted(ms, before, f) ==
    LET at == {i \in 1..Len(ms) : ms[i].f = f.index} IN
    IF at = {} THEN Content(before, f)
    ELSE ms[CHOOSE i \in at : \A j \in at : j <= i].expect

AllGood(ms) == \A i \in 1..Len(ms) : ms[i].good

(***************************************************************************)
(* C21.  JSON unknown-field handling: a member whose name is neither the   *)
(* proto name nor the JSON name of a field of the message gives the error  *)
(* UnknownFieldName when ignore_unknown_fields is false; when it is true   *)
(* the member's whole value, scalar, array or object, is skipped, the      *)
(* message is not changed by it and the following members are merged.  A   *)
(* name that is the proto name or the JSON name of a field is always taken *)
(* as that field.                                                          *)
(***************************************************************************)
C21_UnknownJsonFields ==
    LET ms == jr.members
        strict == [ignore_unknown_fields |-> FALSE]
        erased == merge_from_str_with_options(jr.before, Render(Erase(ms)), strict, "wrapping")
        renamed == merge_from_str_with_options(
                       jr.before, Render(ProtoNamed(ms)),
                       [ignore_unknown_fields |-> jr.ignore], "wrapping")
    IN  jr.op # "none" =>
        /\ (/\ ~jr.ignore
            /\ \E i \in UnknownAt(ms) : \A j \in 1..(i - 1) : ms[j].f # -1 /\ ms[j].good)
               => (jr.status = "Err" /\ jr.error = "UnknownFieldName")
        /\ jr.ignore => jr.error # "UnknownFieldName"
        /\ (jr.ignore /\ \A i \in UnknownAt(ms) : ms[i].good)
               => (jr.status = erased.status /\ jr.error = erased.error /\ jm = erased.msg)
        /\ UnknownAt(ms) = {} => jr.error # "UnknownFieldName"
        /\ (jr.status = renamed.status /\ jr.error = renamed.error /\ jm = renamed.msg)
        /\ (AllGood(ms) /\ (jr.ignore \/ UnknownAt(ms) = {}))
               => /\ jr.status = "Ok"
                  /\ Content(jm, JMsgN) = Denoted(ms, jr.before, JMsgN)

\* An ignored member with an array for its value was skipped and the member
\* after it, named by its JSON name, was merged.
C21_Witness ==
    /\ jr.op = "merge_from_str_with_options"
    /\ jr.ignore
    /\ jr.status = "Ok"
    /\ Len(jr.members) = 2
    /\ jr.members[1].name = "ItemList"
    /\ jr.members[2].name = "itemList"
    /\ jr.before = JMsgLoaded("dynamic")
    /\ get_repeated(jm, JMsgItemList) = <<Box("U32", 3)>>

(***************************************************************************)
(* C29.  JSON merge replaces repeated and map fields: the field is cleared *)
(* before the member is read, so after a successful merge it holds exactly *)
(* the elements of the JSON array, in order, or exactly the entries of the *)
(* JSON object, and nothing it held before; JSON null leaves it empty.     *)
(***************************************************************************)
C29_JsonMergeReplaces ==
    (jr.op # "none" /\ jr.status = "Ok") =>
        /\ get_repeated(jm, JMsgItemList) = Denoted(jr.members, jr.before, JMsgItemList)
        /\ MapContent(get_map(jm, JMsgByKey))
               = MapContent(Denoted(jr.members, jr.before, JMsgByKey))
        /\ Len(get_map(jm, JMsgByKey)) = Len(Denoted(jr.members, jr.before, JMsgByKey))

\* A message that held elements and entries, after the merge of an array
\* into the repeated field and of null into the map field.
C29_Witness ==
    /\ jr.op # "none"
    /\ jr.status = "Ok"
    /\ jr.before = JMsgLoaded("generated")
    /\ Len(jr.members) = 2
    /\ jr.members[1].f = 1
    /\ jr.members[2].f = 2
    /\ jr.members[2].value = <<Ident("null")>>
    /\ get_repeated(jm, JMsgItemList) = <<Box("U32", 1), Box("U32", 2)>>
    /\ get_map(jm, JMsgByKey) = <<>>


(***************************************************************************)
(* The reading of a duration text [-]digits[.digits]s by its form: the     *)
(* sign, the digits of the integer part and the digits of the fraction.    *)
(***************************************************************************)
I64Max == Pow(2, SecBits - 1) - 1

DurForm(chars) ==
    LET minus == Len(chars) > 0 /\ chars[1] = "-"
        p0 == IF minus THEN 2 ELSE 1
        e1 == DigitsEnd(chars, p0)
        dot == e1 <= Len(chars) /\ chars[e1] = "."
        e2 == IF dot THEN DigitsEnd(chars, e1 + 1) ELSE e1
    IN  [minus |-> minus,
         int |-> SubSeq(chars, p0, e1 - 1),
         dot |-> dot,
         frac |-> IF dot THEN SubSeq(chars, e1 + 1, e2 - 1) ELSE <<>>,
         suffix |-> e2 <= Len(chars) /\ chars[e2] = "s",
         rest |-> Len(chars) - e2]

\* [-]digits[.digits]s, with at least one digit wherever digits stand and
\* no more than nine in the fraction.
IsDurationText(chars) ==
    LET d == DurForm(chars) IN
    /\ Len(d.int) \in 1..9
    /\ d.dot => Len(d.frac) \in 1..9
    /\ d.suffix
    /\ d.rest = 0

Signed(minus, n) == IF minus THEN -n ELSE n

\* A text the claim names as incorrect: no integer digits, more than nine
\* digits of fraction, no `s` at the end, or characters after it.
IsIncorrectDurationText(chars) ==
    LET d == DurForm(chars) IN
    \/ Len(d.int) = 0
    \/ Len(d.frac) > 9
    \/ ~d.suffix
    \/ d.rest > 0

\* The duration texts of the state's input, when the target is a Duration.
DurationCase == jm.desc = "Duration" /\ Len(jr.text) = 1 /\ jr.text[1].k = "str"

(***************************************************************************)
(* C30.  JSON duration parsing is numerically exact: when merge_wk_duration*)
(* succeeds on [-]digits[.digits]s, seconds is the decimal integer part    *)
(* with the sign applied and lies in the signed 64-bit range, nanos is the *)
(* fraction right-padded to nine digits with the same sign, at most        *)
(* 999,999,999 in magnitude and never of the sign opposite to seconds; a   *)
(* text with no integer digits, more than nine fractional digits, no       *)
(* trailing `s` or extra trailing characters gives IncorrectDuration and   *)
(* leaves the duration unchanged.                                          *)
(***************************************************************************)
C30_DurationExact ==
    DurationCase =>
        \A build \in Builds :
            LET chars == jr.text[1].v
                d == DurForm(chars)
                r == merge_from_str(jm, jr.text, build)
            IN  /\ (r.status = "Ok" /\ IsDurationText(chars)) =>
                       /\ r.msg.seconds = Signed(d.minus, Dec(d.int))
                       /\ r.msg.seconds \in I64Min..I64Max
                       /\ r.msg.nanos = Signed(d.minus, Dec(d.frac) * Pow(10, 9 - Len(d.frac)))
                       /\ r.msg.nanos \in -999999999..999999999
                       /\ ~(r.msg.seconds > 0 /\ r.msg.nanos < 0)
                       /\ ~(r.msg.seconds < 0 /\ r.msg.nanos > 0)
                /\ IsIncorrectDurationText(chars) =>
                       /\ r.status = "Err"
                       /\ r.error = "IncorrectDuration"
                       /\ r.msg = jm

\* For an integer part of at most the greatest i64 the result is exact, and
\* the incorrect texts are refused with the duration as it was.
DurationExactBelowI64Max ==
    DurationCase =>
        \A build \in Builds :
            LET chars == jr.text[1].v
                d == DurForm(chars)
                r == merge_from_str(jm, jr.text, build)
            IN  /\ (r.status = "Ok" /\ IsDurationText(chars) /\ Dec(d.int) <= I64Max) =>
                       /\ r.msg.seconds = Signed(d.minus, Dec(d.int))
                       /\ r.msg.nanos = Signed(d.minus, Dec(d.frac) * Pow(10, 9 - Len(d.frac)))
                       /\ r.msg.nanos \in -999999999..999999999
                       /\ ~(r.msg.seconds > 0 /\ r.msg.nanos < 0)
                       /\ ~(r.msg.seconds < 0 /\ r.msg.nanos > 0)
                /\ (IsDurationText(chars) /\ Dec(d.int) <= I64Max) => r.status = "Ok"
                /\ IsIncorrectDurationText(chars) =>
                       /\ r.status = "Err"
                       /\ r.error = "IncorrectDuration"
                       /\ r.msg = jm


(***************************************************************************)
(* Two messages a and b that are mutated, compared and cloned              *)
(* (reflect/message/mod.rs).  A message is owned through a Box: objs maps  *)
(* the address of each box to the message in it, and a and b are           *)
(* addresses.  A comparison yields "true" or "false", or "abort" when one  *)
(* of its assertions fails.                                                *)
(***************************************************************************)
Descriptor(b, d) == [file_descriptor |-> b, name |-> d]

CmpTypes == {"TestMsg", "Empty"}

CmpDescriptors == {Descriptor(b, d) : b \in Backings, d \in CmpTypes}

Verdict(bool) == IF bool THEN "true" ELSE "false"

\* A reflect_eq that looks at the descriptors only when there is a field to
\* compare.
reflect_eq_on_unasserted(d, a, b, mode) ==
    IF fields(d.name) = <<>> THEN "true"
    ELSE IF d # descriptor_dyn(a) \/ d # descriptor_dyn(b) THEN "abort"
    ELSE Verdict(MessageDescriptor_reflect_eq(d.name, a, b, mode))

\* MessageDescriptor::reflect_eq called on the descriptor d: the two
\* assert_eq!, then the loop over the fields.
reflect_eq_on(d, a, b, mode) ==
    IF d # descriptor_dyn(a) \/ d # descriptor_dyn(b) THEN "abort"
    ELSE Verdict(MessageDescriptor_reflect_eq(d.name, a, b, mode))

\* MessageDescriptor::reflect_eq_maybe_unrelated with the outcome of the
\* reflect_eq it calls: `ad == bd && ad.reflect_eq(a, b, mode)`.
reflect_eq_maybe_unrelated_on(a, b, mode) ==
    IF descriptor_dyn(a) = descriptor_dyn(b)
    THEN reflect_eq_on(descriptor_dyn(a), a, b, mode)
    ELSE "false"

\* A clone that hands out the box it was given.
clone_message_shared(d, store, ref, free) == [aborted |-> FALSE, store |-> store, ref |-> ref]

\* MessageDescriptor::clone_message: the assertion on the descriptor, then
\* a new Box with the clone of the message, which for either backing copies
\* every field, the unknown fields and the cached size.
clone_message(d, store, ref, free) ==
    IF descriptor_dyn(store[ref]) # d
    THEN [aborted |-> TRUE, store |-> store, ref |-> ref]
    ELSE [aborted |-> FALSE, store |-> [store EXCEPT ![free] = store[ref]], ref |-> free]

InsertOutcome(aborted, msg) == [aborted |-> aborted, msg |-> msg]

\* An insert that stores the key before it looks at the value.
ReflectMapMut_insert_late_check(msg, f, kbox, vbox) ==
    IF kbox.t # KeyType(f) THEN InsertOutcome(TRUE, msg)
    ELSE IF vbox.t # ElemType(f)
         THEN InsertOutcome(TRUE, mut_map_insert(msg, f, kbox, ZeroBox(ElemType(f))))
         ELSE InsertOutcome(FALSE, mut_map_insert(msg, f, kbox, vbox))

\* ReflectMapMut::insert, which is insert of the map behind it.  For the
\* HashMap of a generated message: key.downcast().expect("wrong key type"),
\* value.downcast().expect("wrong value type"), then HashMap::insert.  The
\* map of a dynamic message asserts the two types likewise.
ReflectMapMut_insert(msg, f, kbox, vbox) ==
    IF msg.backing = "generated"
    THEN IF ~IsSome(Downcast(KeyType(f), kbox)) THEN InsertOutcome(TRUE, msg)
         ELSE IF ~IsSome(Downcast(ElemType(f), vbox)) THEN InsertOutcome(TRUE, msg)
         ELSE InsertOutcome(FALSE, mut_map_insert(msg, f, kbox, vbox))
    ELSE IF kbox.t # KeyType(f) \/ vbox.t # ElemType(f) THEN InsertOutcome(TRUE, msg)
         ELSE InsertOutcome(FALSE, mut_map_insert(msg, f, kbox, vbox))

\* The boxes handed to insert: of the types of the map and of others.
InsertKeys == {Box("I32", 1), Box("I64", 1), Box("String", "k")}

InsertValues == {Box("F64", "0.0"), Box("I32", 0)}

CmpInit ==
    /\ vt = "F64" /\ m = <<>> /\ last = <<>> /\ pushed = <<>>
    /\ \E x, y \in {new_instance(b, d) : b \in Backings, d \in CmpTypes} : objs = <<x, y>>
    /\ ca = 1
    /\ cb = 2
    /\ cres = [op |-> "none", target |-> 0, on |-> Descriptor("generated", "TestMsg"),
               mode |-> NanEqual, result |-> "none", cloned |-> FALSE,
               key |-> "", value |-> ""]
    /\ IdxIdle /\ EqIdle /\ LazyIdle /\ WireIdle /\ EntIdle /\ ReqIdle /\ JsonIdle /\ ModIdle /\ WrIdle

Mutated(op, i) ==
    [cres EXCEPT !.op = op, !.target = i, !.result = "none", !.key = "", !.value = ""]

CmpSet ==
    /\ \E i \in {ca, cb}, p \in {"1.5", "NaN"} :
           /\ objs[i].desc = "TestMsg"
           /\ objs' = [objs EXCEPT ![i] = set_singular_field(@, FieldV, Box(vt, p))]
           /\ cres' = Mutated("set", i)
    /\ UNCHANGED <<ca, cb>>
    /\ CmpFrame

\* FieldDescriptor::mut_map(m).insert(key, value); cres keeps the runtime
\* types of the two boxes.
CmpInsert ==
    /\ \E i \in {ca, cb}, kbox \in InsertKeys, vbox \in InsertValues :
           LET r == ReflectMapMut_insert(objs[i], FieldMp, kbox, vbox) IN
           /\ objs[i].desc = "TestMsg"
           /\ objs' = [objs EXCEPT ![i] = r.msg]
           /\ cres' = [Mutated("insert", i) EXCEPT
                          !.result = IF r.aborted THEN "abort" ELSE "none",
                          !.key = kbox.t, !.value = vbox.t]
    /\ UNCHANGED <<ca, cb>>
    /\ CmpFrame

\* An undeclared field is added to the unknown fields of a message.
CmpAddUnknown ==
    /\ \E i \in {ca, cb} :
           /\ Len(objs[i].unknown_fields) < 1
           /\ objs' = [objs EXCEPT ![i].unknown_fields = add_value(@, 9, "Varint", <<1>>)]
           /\ cres' = Mutated("add_unknown", i)
    /\ UNCHANGED <<ca, cb>>
    /\ CmpFrame

\* The unknown fields of a message are cleared.
CmpClearUnknown ==
    /\ \E i \in {ca, cb} :
           /\ objs[i].unknown_fields # <<>>
           /\ objs' = [objs EXCEPT ![i].unknown_fields = <<>>]
           /\ cres' = Mutated("clear_unknown", i)
    /\ UNCHANGED <<ca, cb>>
    /\ CmpFrame

CmpReflectEq ==
    /\ \E d \in CmpDescriptors, mode \in ReflectEqModes :
           cres' = [cres EXCEPT !.op = "reflect_eq", !.target = 0, !.on = d, !.mode = mode,
                                !.result = reflect_eq_on(d, objs[ca], objs[cb], mode)]
    /\ UNCHANGED <<objs, ca, cb>>
    /\ CmpFrame

CmpReflectEqMaybeUnrelated ==
    /\ \E mode \in ReflectEqModes :
           cres' = [cres EXCEPT !.op = "reflect_eq_maybe_unrelated", !.target = 0,
                                !.on = descriptor_dyn(objs[ca]), !.mode = mode,
                                !.result = reflect_eq_maybe_unrelated_on(objs[ca], objs[cb], mode)]
    /\ UNCHANGED <<objs, ca, cb>>
    /\ CmpFrame

\* b = a.descriptor_dyn().clone_message(a): the box b held is dropped and
\* its address is free for the new one.
CmpClone ==
    /\ LET r == clone_message(descriptor_dyn(objs[ca]), objs, ca, 3 - ca) IN
       /\ ~r.aborted
       /\ objs' = r.store
       /\ cb' = r.ref
       /\ cres' = [cres EXCEPT !.op = "clone_message", !.target = 0, !.result = "none",
                               !.cloned = TRUE]
    /\ UNCHANGED ca
    /\ CmpFrame

CmpNext ==
    \/ CmpSet \/ CmpInsert \/ CmpAddUnknown \/ CmpClearUnknown
    \/ CmpReflectEq \/ CmpReflectEqMaybeUnrelated \/ CmpClone

SpecCmp == CmpInit /\ [][CmpNext]_vars

MsgA == objs[ca]

MsgB == objs[cb]

WithoutUnknown(msg) == [msg EXCEPT !.unknown_fields = <<>>]

\* The declared fields of the two messages hold the same values, none of
\* them a NaN unless the mode takes NaN for equal to itself.
SameDeclaredValues(a, b, mode) ==
    /\ descriptor_dyn(a) = descriptor_dyn(b)
    /\ WithoutUnknown(a) = WithoutUnknown(b)
    /\ mode.nan_equal \/ a.desc # "TestMsg" \/ ~HasNaN(a)

(***************************************************************************)
(* C22.  Ordinary equality ignores unknown fields: for two messages of one *)
(* descriptor whose declared fields hold equal values reflect_eq is true   *)
(* whatever their unknown fields contain, and a change of the unknown      *)
(* fields alone, of either message, never changes the result of            *)
(* reflect_eq.                                                             *)
(***************************************************************************)
UnknownIgnored ==
    \A mode \in ReflectEqModes :
        /\ SameDeclaredValues(MsgA, MsgB, mode) => reflect_eq(MsgA, MsgB, mode)
        /\ descriptor_dyn(MsgA) = descriptor_dyn(MsgB) =>
               reflect_eq(MsgA, MsgB, mode)
                   = reflect_eq(WithoutUnknown(MsgA), WithoutUnknown(MsgB), mode)
        /\ (cres.op = "reflect_eq" /\ cres.mode = mode /\ cres.on = descriptor_dyn(MsgA)
                /\ SameDeclaredValues(MsgA, MsgB, mode))
               => cres.result = "true"

UnknownStep ==
    cres'.op \in {"add_unknown", "clear_unknown"} =>
        \A mode \in ReflectEqModes, d \in CmpDescriptors :
            reflect_eq_on(d, objs'[ca'], objs'[cb'], mode)
                = reflect_eq_on(d, objs[ca], objs[cb], mode)

C22_EqIgnoresUnknownFields == []UnknownIgnored /\ [][UnknownStep]_vars

\* Two messages with equal declared fields and different unknown fields
\* were compared and found equal.
C22_Witness ==
    /\ cres.op = "reflect_eq"
    /\ cres.result = "true"
    /\ MsgA.unknown_fields # MsgB.unknown_fields
    /\ MsgA.desc = "TestMsg"
    /\ IsSome(get_singular(MsgA, FieldV))
    /\ get_map(MsgA, FieldMp) # <<>>


(***************************************************************************)
(* C23.  Clone is a deep copy: clone_message(m) returns a new message of   *)
(* the descriptor of m that is reflect-equal to m, and afterwards no       *)
(* mutation of the clone changes m and no mutation of m changes the clone, *)
(* for both backings.                                                      *)
(***************************************************************************)
CloneEqual ==
    cres.op = "clone_message" =>
        /\ cb # ca
        /\ descriptor_dyn(MsgB) = descriptor_dyn(MsgA)
        /\ reflect_eq(MsgB, MsgA, NanEqual)
        /\ reflect_eq(MsgA, MsgB, NanEqual)
        /\ reflect_eq(MsgB, MsgA, Ieee) = reflect_eq(MsgA, MsgA, Ieee)
        /\ MsgB.unknown_fields = MsgA.unknown_fields

Mutations23 == {"set", "insert", "add_unknown", "clear_unknown"}

CloneStep ==
    (cres.cloned /\ cres'.op \in Mutations23) =>
        /\ cres'.target = cb => objs'[ca] = objs[ca]
        /\ cres'.target = ca => objs'[cb] = objs[cb]

C23_CloneIsDeep == []CloneEqual /\ [][CloneStep]_vars

\* After a clone of a dynamic message that holds a value and a map entry, the
\* clone was given another value and the two differ.
C23_Witness ==
    /\ cres.cloned
    /\ cres.op = "set"
    /\ cres.target = cb
    /\ MsgA.backing = "dynamic"
    /\ MsgA.desc = "TestMsg"
    /\ MsgB.desc = "TestMsg"
    /\ get_singular(MsgA, FieldV) = OptSome(Box(vt, "NaN"))
    /\ get_singular(MsgB, FieldV) = OptSome(Box(vt, "1.5"))
    /\ get_map(MsgA, FieldMp) # <<>>
    /\ get_map(MsgB, FieldMp) = get_map(MsgA, FieldMp)

(***************************************************************************)
(* C28.  Descriptor mismatch in reflective equality: reflect_eq called on  *)
(* a descriptor aborts whenever the descriptor of a or of b is another     *)
(* one, also for a message type without fields; reflect_eq_maybe_unrelated *)
(* returns false for messages of different descriptors and does not abort  *)
(* for that reason.                                                        *)
(***************************************************************************)
C28_DescriptorMismatch ==
    /\ cres.op = "reflect_eq" =>
           (cres.result = "abort"
               <=> (cres.on # descriptor_dyn(MsgA) \/ cres.on # descriptor_dyn(MsgB)))
    /\ cres.op = "reflect_eq_maybe_unrelated" =>
           /\ cres.result \in {"true", "false"}
           /\ descriptor_dyn(MsgA) # descriptor_dyn(MsgB) => cres.result = "false"
    /\ \A d \in CmpDescriptors, mode \in ReflectEqModes :
           (d # descriptor_dyn(MsgA) \/ d # descriptor_dyn(MsgB))
               => reflect_eq_on(d, MsgA, MsgB, mode) = "abort"

\* reflect_eq of the generated Empty was called on a generated and a dynamic
\* message of the type Empty, which has no field, and aborted.
C28_Witness ==
    /\ cres.op = "reflect_eq"
    /\ cres.result = "abort"
    /\ cres.on = Descriptor("generated", "Empty")
    /\ descriptor_dyn(MsgA) = Descriptor("generated", "Empty")
    /\ descriptor_dyn(MsgB) = Descriptor("dynamic", "Empty")


(***************************************************************************)
(* C24.  Map type safety: ReflectMapMut::insert(key, value) aborts when    *)
(* the runtime type of the key is not the key type of the map, or that of  *)
(* the value not its value type, and the map is then left unchanged; so in *)
(* every reachable state all entries of a map field have keys of           *)
(* key_type() and values of value_type().                                  *)
(***************************************************************************)
MapWellTyped ==
    \A i \in DOMAIN objs :
        objs[i].desc = "TestMsg" =>
            \A j \in 1..Len(get_map(objs[i], FieldMp)) :
                /\ get_map(objs[i], FieldMp)[j][1].t = KeyType(FieldMp)
                /\ get_map(objs[i], FieldMp)[j][2].t = ElemType(FieldMp)

InsertAborts ==
    cres.op = "insert" =>
        (cres.result = "abort"
            <=> (cres.key # KeyType(FieldMp) \/ cres.value # ElemType(FieldMp)))

AbortedInsertStep == (cres'.op = "insert" /\ cres'.result = "abort") => objs' = objs

C24_MapTypeSafety == [](MapWellTyped /\ InsertAborts) /\ [][AbortedInsertStep]_vars

\* An insert with a key of the map's type and a value of another type has
\* aborted on a dynamic message whose map held an entry.
C24_Witness ==
    /\ cres.op = "insert"
    /\ cres.result = "abort"
    /\ cres.key = KeyType(FieldMp)
    /\ cres.value = "I32"
    /\ objs[cres.target].backing = "dynamic"
    /\ Len(get_map(objs[cres.target], FieldMp)) = 1


(***************************************************************************)
(* The name of the Rust module generated for a .proto file                 *)
(* (protobuf-codegen/src/file.rs).  A string is the sequence of its        *)
(* characters.                                                             *)
(***************************************************************************)
AsciiLower ==
    {"a", "b", "c", "d", "e", "f", "g", "h", "i", "j", "k", "l", "m",
     "n", "o", "p", "q", "r", "s", "t", "u", "v", "w", "x", "y", "z"}

AsciiUpper ==
    {"A", "B", "C", "D", "E", "F", "G", "H", "I", "J", "K", "L", "M",
     "N", "O", "P", "Q", "R", "S", "T", "U", "V", "W", "X", "Y", "Z"}

AsciiDigit == {"0", "1", "2", "3", "4", "5", "6", "7", "8", "9"}

ident_start(c) == c \in AsciiLower \/ c \in AsciiUpper \/ c = "_"

ident_continue(c) == c \in AsciiLower \/ c \in AsciiUpper \/ c \in AsciiDigit \/ c = "_"

\* std::path::is_separator: '/', and on Windows '\' as well.
is_separator(c, os) == c = "/" \/ (os = "windows" /\ c = "\\")

DotProto == <<".", "p", "r", "o", "t", "o">>

Proto == <<"p", "r", "o", "t", "o">>

FooBar == <<"f", "o", "o", "/", "b", "a", "r", "/">>

\* strx::remove_to: what follows the last character that satisfies the
\* predicate, the whole string if there is none.
remove_to(s, os) ==
    LET I == {i \in 1..Len(s) : is_separator(s[i], os)}
        last_sep == IF I = {} THEN 0 ELSE CHOOSE i \in I : \A j \in I : j <= i
    IN  SubSeq(s, last_sep + 1, Len(s))

str_ends_with(s, suffix) ==
    /\ Len(s) >= Len(suffix)
    /\ SubSeq(s, Len(s) - Len(suffix) + 1, Len(s)) = suffix

\* strx::remove_suffix: the string without the suffix if it ends with it.
remove_suffix(s, suffix) ==
    IF str_ends_with(s, suffix) THEN SubSeq(s, 1, Len(s) - Len(suffix)) ELSE s

\* A string without its last extension, whatever it is.
remove_extension(s) ==
    LET I == {i \in 1..Len(s) : s[i] = "."}
    IN  IF I = {} THEN s ELSE SubSeq(s, 1, (CHOOSE i \in I : \A j \in I : j <= i) - 1)

\* Keywords of Rust, those that the file names here can spell.
RustKeywords ==
    {<<"a", "s">>,
     <<"f", "n">>,
     <<"i", "f">>,
     <<"i", "n">>,
     <<"m", "o", "d">>,
     <<"u", "s", "e">>,
     <<"t", "y", "p", "e">>,
     <<"s", "e", "l", "f">>,
     <<"s", "u", "p", "e", "r">>}

is_rust_keyword(name) == name \in RustKeywords

\* A proto_path_to_rust_mod that drops any extension.
proto_path_to_rust_mod_any_ext(p, os) ==
    LET without_suffix == remove_extension(remove_to(p, os))
        name == [i \in 1..Len(without_suffix) |->
                    IF (IF i = 1 THEN ident_start(without_suffix[i])
                                 ELSE ident_continue(without_suffix[i]))
                    THEN without_suffix[i] ELSE "_"]
    IN  IF is_rust_keyword(name) THEN name \o <<"_", "p", "b">> ELSE name

\* proto_path_to_rust_mod: remove the directory, remove ".proto", replace
\* each character that is not valid where it stands, append "_pb" to a
\* keyword.
proto_path_to_rust_mod(p, os) ==
    LET without_dir == remove_to(p, os)
        without_suffix == remove_suffix(without_dir, DotProto)
        name == [i \in 1..Len(without_suffix) |->
                    IF (IF i = 1 THEN ident_start(without_suffix[i])
                                 ELSE ident_continue(without_suffix[i]))
                    THEN without_suffix[i] ELSE "_"]
    IN  IF is_rust_keyword(name) THEN name \o <<"_", "p", "b">> ELSE name

\* proto_name_to_rs: format!("{}.rs", proto_path_to_rust_mod(path)).
proto_name_to_rs(p, os) == proto_path_to_rust_mod(p, os) \o <<".", "r", "s">>

\* The directories, file names and extensions the paths are made of.  A
\* file name is not empty.
PathDirs ==
    {<< >>, FooBar,
     <<"a", ".", "p", "r", "o", "t", "o", "/">>, <<"/">>,
     <<"d", "\\">>, <<"a", "/", "b", "\\">>}

StemAlphabet == {"a", "Z", "1", "_", "-", "."}

PathStems ==
    {st \in SeqsUpTo(StemAlphabet, MaxStem) : Len(st) > 0}
        \cup {Proto, <<"b", "a", "z">>, <<"f", "n">>, <<"m", "o", "d">>, <<"t", "y", "p", "e">>}

PathSuffixes ==
    {<< >>, DotProto, DotProto \o <<"3">>, <<".", "P", "R", "O", "T", "O">>,
     DotProto \o DotProto}

Platforms == {"unix", "windows"}

ModInit ==
    /\ \E d \in PathDirs, st \in PathStems, x \in PathSuffixes, os \in Platforms :
           path = [chars |-> d \o st \o x, os |-> os]
    /\ rmod = [op |-> "none", name |-> << >>]
    /\ AccIdle /\ IdxIdle /\ EqIdle /\ LazyIdle /\ WireIdle /\ EntIdle /\ ReqIdle /\ JsonIdle /\ CmpIdle /\ WrIdle

CallProtoPathToRustMod ==
    /\ rmod' = [op |-> "proto_path_to_rust_mod",
                name |-> proto_path_to_rust_mod(path.chars, path.os)]
    /\ UNCHANGED path
    /\ ModFrame

CallProtoNameToRs ==
    /\ rmod' = [op |-> "proto_name_to_rs", name |-> proto_name_to_rs(path.chars, path.os)]
    /\ UNCHANGED path
    /\ ModFrame

ModNext == CallProtoPathToRustMod \/ CallProtoNameToRs

SpecModName == ModInit /\ [][ModNext]_vars

\* The file name of a path: what follows its last separator.
IsFileNameOf(file, p, os) ==
    \E k \in 0..Len(p) :
        /\ k > 0 => is_separator(p[k], os)
        /\ \A i \in (k + 1)..Len(p) : ~is_separator(p[i], os)
        /\ file = SubSeq(p, k + 1, Len(p))

\* The file name without a ".proto" it ends with.
IsBaseOf(base, file) ==
    IF \E pre \in {SubSeq(file, 1, n) : n \in 0..Len(file)} : file = pre \o DotProto
    THEN base \o DotProto = file
    ELSE base = file

\* The module name of a base: character by character the base, with '_'
\* for what an identifier cannot have there, and "_pb" after a keyword.
IsModNameOf(r, base) ==
    LET body == SubSeq(r, 1, Len(base)) IN
    /\ Len(r) >= Len(base)
    /\ \A i \in 1..Len(base) :
           IF base[i] \in AsciiLower \cup AsciiUpper \cup {"_"}
                \/ (i > 1 /\ base[i] \in AsciiDigit)
           THEN r[i] = base[i]
           ELSE r[i] = "_"
    /\ r = IF body \in RustKeywords THEN body \o <<"_", "p", "b">> ELSE body

ModExamples ==
    \A os \in Platforms :
        /\ proto_path_to_rust_mod(Proto \o DotProto, os) = Proto
        /\ proto_path_to_rust_mod(Proto, os) = Proto
        /\ proto_path_to_rust_mod(Proto \o DotProto \o <<"3">>, os)
               = Proto \o <<"_">> \o Proto \o <<"3">>
        /\ proto_path_to_rust_mod(FooBar \o <<"b", "a", "z">> \o DotProto, os) = <<"b", "a", "z">>

(***************************************************************************)
(* C26.  proto_path_to_rust_mod(path) removes the directory part of the    *)
(* path and a trailing ".proto" (only that exact suffix), then replaces    *)
(* every character that is not valid at its position in a Rust identifier  *)
(* with '_', and appends "_pb" when the result is a Rust keyword:          *)
(* "proto.proto" and "proto" give proto, "proto.proto3" gives              *)
(* proto_proto3, "foo/bar/baz.proto" gives baz.                            *)
(***************************************************************************)
C26_ModName ==
    /\ ModExamples
    /\ rmod.op = "proto_path_to_rust_mod" =>
           \E file \in {SubSeq(path.chars, n, Len(path.chars)) : n \in 1..(Len(path.chars) + 1)} :
               \E base \in {SubSeq(file, 1, n) : n \in 0..Len(file)} :
                   /\ IsFileNameOf(file, path.chars, path.os)
                   /\ IsBaseOf(base, file)
                   /\ IsModNameOf(rmod.name, base)

\* A path with a directory whose file name is a keyword followed by
\* ".proto" was given to proto_path_to_rust_mod.
C26_Witness ==
    /\ rmod.op = "proto_path_to_rust_mod"
    /\ path.chars = FooBar \o <<"f", "n">> \o DotProto
    /\ rmod.name = <<"f", "n", "_", "p", "b">>

\* A path whose file name has an extension other than ".proto" and starts
\* with a digit was given to proto_path_to_rust_mod, on Windows with a
\* directory that ends with a backslash.
ModNameReplaced ==
    /\ rmod.op = "proto_path_to_rust_mod"
    /\ path.os = "windows"
    /\ path.chars = <<"d", "\\">> \o <<"1", "-">> \o <<".", "p", "r", "o", "t", "o", "3">>
    /\ rmod.name = <<"_", "_", "_", "p", "r", "o", "t", "o", "3">>


(***************************************************************************)
(* The writing operations of Message (protobuf/src/message.rs), one call   *)
(* of the body at a time.  They take the message by shared reference, so   *)
(* the setters, which take it by unique reference, run between writes.     *)
(***************************************************************************)
WriteOps == {"write_to", "write_length_delimited_to", "write_to_bytes"}

\* Writes that go to their output without computing the size.
MessageSteps_unsized(op) ==
    CASE op = "write_to" ->
           <<"check_initialized", "write_to_with_cached_sizes">>
      [] op = "write_length_delimited_to" ->
           <<"write_raw_varint32", "write_to_with_cached_sizes">>
      [] op = "write_to_bytes" ->
           <<"check_initialized", "write_to_with_cached_sizes">>

\* The calls the body of each operation makes on the message and on the
\* stream, in the order of the code.
MessageSteps(op) ==
    CASE op = "write_to" ->
           <<"check_initialized", "compute_size", "write_to_with_cached_sizes">>
      [] op = "write_length_delimited_to" ->
           <<"compute_size", "write_raw_varint32", "write_to_with_cached_sizes">>
      [] op = "write_to_bytes" ->
           <<"check_initialized", "compute_size", "write_to_with_cached_sizes">>

NoCall ==
    [op |-> "none", pc |-> 0, size |-> 0, status |-> "none", done |-> <<>>,
     stale_at_start |-> FALSE]

\* The call the body is about to make.
AtStep == IF call.pc = 0 THEN "none" ELSE MessageSteps(call.op)[call.pc]

\* The body goes on to its next call, or returns Ok(..) after its last.
Advance ==
    IF call.pc = Len(MessageSteps(call.op))
    THEN [call EXCEPT !.pc = 0, !.status = "Ok", !.done = Append(@, AtStep)]
    ELSE [call EXCEPT !.pc = @ + 1, !.done = Append(@, AtStep)]

\* The body returns early.
Return(status) == [call EXCEPT !.pc = 0, !.status = status, !.done = Append(@, AtStep)]

WrInit ==
    /\ \E d \in ReqTypes, lite \in BOOLEAN : sm = [lite_runtime |-> lite, msg |-> Req_new(d)]
    /\ call = NoCall
    /\ sink = <<>>
    /\ stale = TRUE
    /\ AccIdle /\ IdxIdle /\ EqIdle /\ LazyIdle /\ WireIdle /\ EntIdle /\ ReqIdle /\ JsonIdle /\ CmpIdle /\ ModIdle

\* The setter of the scalar field of the message.
WrSetScalar ==
    /\ call.pc = 0
    /\ \E v \in {7, 300} :
           LET f == FieldGens(sm.msg.desc)[1] IN
           sm' = [sm EXCEPT !.msg.fields[f.name] = <<v>>]
    /\ stale' = TRUE
    /\ UNCHANGED <<call, sink>>
    /\ WrFrame

\* Clear::clear
WrClear ==
    /\ call.pc = 0
    /\ sm' = [sm EXCEPT !.msg = [Req_new(sm.msg.desc) EXCEPT !.cached_size = sm.msg.cached_size]]
    /\ stale' = TRUE
    /\ UNCHANGED <<call, sink>>
    /\ WrFrame

WrSetChild ==
    /\ call.pc = 0
    /\ sm.msg.desc = "Outer"
    /\ \E s \in ReqSubs : sm' = [sm EXCEPT !.msg.fields.child = <<s>>]
    /\ stale' = TRUE
    /\ UNCHANGED <<call, sink>>
    /\ WrFrame

\* One of the writing operations is called on the message, with an empty
\* output.
WrCall ==
    /\ call.pc = 0
    /\ \E op \in WriteOps :
           call' = [NoCall EXCEPT !.op = op, !.pc = 1, !.status = "running",
                                  !.stale_at_start = stale /\ sm.msg.cached_size # 0]
    /\ sink' = <<>>
    /\ UNCHANGED <<sm, stale>>
    /\ WrFrame

\* self.check_initialized()?
WrCheckInitialized ==
    /\ AtStep = "check_initialized"
    /\ call' = IF check_initialized(sm).status = "Ok"
               THEN Advance
               ELSE Return(check_initialized(sm).status)
    /\ UNCHANGED <<sm, sink, stale>>
    /\ WrFrame

\* self.compute_size(): the size is computed, cached and returned.
WrComputeSize ==
    /\ AtStep = "compute_size"
    /\ sm' = [sm EXCEPT !.msg.cached_size = Len(Req_write_to_with_cached_sizes(sm.msg))]
    /\ call' = [Advance EXCEPT !.size = Len(Req_write_to_with_cached_sizes(sm.msg))]
    /\ stale' = FALSE
    /\ UNCHANGED sink
    /\ WrFrame

\* os.write_raw_varint32(size)?, which the stream may refuse.
WrWriteRawVarint32 ==
    /\ AtStep = "write_raw_varint32"
    /\ \E ok \in BOOLEAN :
           IF ok
           THEN call' = Advance /\ sink' = sink \o Varint(call.size)
           ELSE call' = Return("Err") /\ sink' = sink
    /\ UNCHANGED <<sm, stale>>
    /\ WrFrame

\* self.write_to_with_cached_sizes(os)?
WrWriteToWithCachedSizes ==
    /\ AtStep = "write_to_with_cached_sizes"
    /\ call' = Advance
    /\ sink' = sink \o Req_write_to_with_cached_sizes(sm.msg)
    /\ UNCHANGED <<sm, stale>>
    /\ WrFrame

WrNext ==
    \/ WrSetScalar \/ WrClear \/ WrSetChild \/ WrCall
    \/ WrCheckInitialized \/ WrComputeSize \/ WrWriteRawVarint32 \/ WrWriteToWithCachedSizes

SpecWrite == WrInit /\ [][WrNext]_vars

\* The message without its cached size.
Contents(msg) == [msg EXCEPT !.cached_size = 0]

\* compute_size has completed in this call.
SizedInCall == \E i \in 1..Len(call.done) : call.done[i] = "compute_size"

\* A step in which write_to_with_cached_sizes runs.
WriteStarts == AtStep = "write_to_with_cached_sizes" /\ call' # call

SizedBeforeWrite ==
    WriteStarts =>
        /\ SizedInCall
        /\ ~stale
        /\ sm.msg.cached_size = Len(Req_write_to_with_cached_sizes(sm.msg))

NotMutatedInCall == call.pc # 0 => Contents(sm'.msg) = Contents(sm.msg)

(***************************************************************************)
(* C27.  Size is cached before writing: in every execution of write_to,    *)
(* write_to_bytes and write_length_delimited_to, compute_size on the       *)
(* message completes before write_to_with_cached_sizes starts and the      *)
(* message is not mutated in between, so write_to_with_cached_sizes never  *)
(* runs on a message whose cached size was not computed from its current   *)
(* contents.                                                               *)
(***************************************************************************)
C27_SizeCachedBeforeWrite == [][SizedBeforeWrite /\ NotMutatedInCall]_vars

\* write_length_delimited_to has returned Ok for a message that, when the
\* call began, had been mutated after its size was cached; the output is
\* the size and the message.
C27_Witness ==
    /\ call.op = "write_length_delimited_to"
    /\ call.status = "Ok"
    /\ call.stale_at_start
    /\ call.size > 0
    /\ sink = Varint(call.size) \o Req_write_to_with_cached_sizes(sm.msg)

\* write_to has returned the error of check_initialized, with nothing
\* computed or written.
WriteRefused ==
    /\ call.op = "write_to"
    /\ call.status = "Err"
    /\ call.done = <<"check_initialized">>
    /\ sink = <<>>

====
